---- MODULE Spec2Model ----
(***************************************************************************)
(* secure-capsule: the field-level encryption engine (FieldEncryption),    *)
(* the capsule it calls for every leaf (SecureCapsule, AES-256-GCM) and    *)
(* the JSON text the capsule puts between a value and the cipher.          *)
(*                                                                         *)
(* A JavaScript value is a record [t, s, e, x]:                            *)
(*   t  the kind: "undefined" "null" "boolean" "number" "string" "date"    *)
(*      "array" "object"                                                   *)
(*   s  the text of a string, of a number (its decimal form), of a boolean *)
(*      or of a date (its ISO-8601 form)                                   *)
(*   e  the elements of an array (values), or the own properties of an     *)
(*      object in insertion order (records [k, v])                         *)
(*   x  <<r>> for the string that carries the EncryptionResult r in its    *)
(*      transmission form, <<r, n>> for that string without its last n     *)
(*      characters, <<>> for every other value                             *)
(***************************************************************************)
EXTENDS Integers, Sequences, FiniteSets, TLC

VARIABLES config, data, pc, envelope, inner, mapping, decoys, draws, wire, touched,
          output, error, cipherCalls, clock, before, env, supplied,
          options, headers, sent, nexts, requests,
          listening, marker, reply, passed

vars == <<config, data, pc, envelope, inner, mapping, decoys, draws, wire, touched,
          output, error, cipherCalls, clock, before, env, supplied,
          options, headers, sent, nexts, requests,
          listening, marker, reply, passed>>

\* the decrypt middleware: whether it was created, the headers of the
\* request it ran on, the response it gave and its calls of next
receiver == <<listening, marker, reply, passed>>

\* the middleware's options and what it did to the response
transport == <<options, headers, sent, nexts, requests, receiver>>

\* what the calls of one encode and one decode leave alone
beyond == <<before, env, supplied, transport>>

----------------------------------------------------------------------------
(* JavaScript values *)

Undefined == [t |-> "undefined", s |-> "", e |-> <<>>, x |-> <<>>]

Null == [t |-> "null", s |-> "", e |-> <<>>, x |-> <<>>]

True == [t |-> "boolean", s |-> "true", e |-> <<>>, x |-> <<>>]

False == [t |-> "boolean", s |-> "false", e |-> <<>>, x |-> <<>>]

Num(s) == [t |-> "number", s |-> s, e |-> <<>>, x |-> <<>>]

Str(s) == [t |-> "string", s |-> s, e |-> <<>>, x |-> <<>>]

DateV(iso) == [t |-> "date", s |-> iso, e |-> <<>>, x |-> <<>>]

Arr(elems) == [t |-> "array", s |-> "", e |-> elems, x |-> <<>>]

Obj(entries) == [t |-> "object", s |-> "", e |-> entries, x |-> <<>>]

Ent(k, v) == [k |-> k, v |-> v]

\* typeof v
typeOf(v) ==
  CASE v.t = "undefined" -> "undefined"
    [] v.t = "boolean" -> "boolean"
    [] v.t = "number" -> "number"
    [] v.t = "string" -> "string"
    [] OTHER -> "object"

\* !!v
Truthy(v) ==
  CASE v.t \in {"undefined", "null"} -> FALSE
    [] v.t = "boolean" -> v.s = "true"
    [] v.t = "number" -> v.s \notin {"0", "NaN"}
    [] v.t = "string" -> v.s # "" \/ v.x # <<>>
    [] OTHER -> TRUE

RECURSIVE IndexOfKey(_, _, _)
IndexOfKey(entries, k, i) ==
  IF i > Len(entries) THEN 0
  ELSE IF entries[i].k = k THEN i
  ELSE IndexOfKey(entries, k, i + 1)

\* k in o (own properties)
HasKey(o, k) == IndexOfKey(o.e, k, 1) # 0

\* k in v, for a name k that is no array index
In(k, v) == v.t = "object" /\ HasKey(v, k)

\* o[k]
Get(o, k) ==
  LET i == IndexOfKey(o.e, k, 1) IN IF i = 0 THEN Undefined ELSE o.e[i].v

\* o[k] = v: an existing key keeps its place, a new one is appended
Put(entries, k, v) ==
  LET i == IndexOfKey(entries, k, 1)
  IN IF i = 0 THEN Append(entries, Ent(k, v))
     ELSE [entries EXCEPT ![i] = Ent(k, v)]

\* the object without key k
Without(entries, k) == SelectSeq(entries, LAMBDA en : en.k # k)

Keys(o) == {o.e[i].k : i \in 1..Len(o.e)}

\* {...a, ...b}
RECURSIVE Spread(_, _)
Spread(a, b) ==
  IF b = <<>> THEN a ELSE Spread(Put(a, Head(b).k, Head(b).v), Tail(b))

----------------------------------------------------------------------------
(* JSON.stringify and JSON.parse, on the characters of the text.  The     *)
(* number grammar is the integer part of JSON's (no fraction, no          *)
(* exponent) and the escapes are those of the quote, the backslash and    *)
(* the slash: texts with other numbers or escapes are not drawn.          *)

Ch(text, i) == IF i >= 1 /\ i <= Len(text) THEN SubSeq(text, i, i) ELSE ""

\* text.slice(i - 1, j), "" when the text ends before j
Sub(text, i, j) == IF i >= 1 /\ j <= Len(text) THEN SubSeq(text, i, j) ELSE ""

Digits == {"0", "1", "2", "3", "4", "5", "6", "7", "8", "9"}

RECURSIVE Escape(_, _, _)
Escape(s, i, acc) ==
  IF i > Len(s) THEN acc
  ELSE Escape(s, i + 1,
         IF Ch(s, i) \in {"\"", "\\"} THEN acc \o "\\" \o Ch(s, i) ELSE acc \o Ch(s, i))

Quote(s) == "\"" \o Escape(s, 1, "") \o "\""

RECURSIVE JSON_stringify(_)
RECURSIVE StringifyElements(_, _, _)
RECURSIVE StringifyMembers(_, _, _)

\* JSON.stringify(v) for v other than undefined
JSON_stringify(v) ==
  CASE v.t = "null" -> "null"
    [] v.t = "boolean" -> v.s
    [] v.t = "number" -> IF v.s \in {"NaN", "Infinity", "-Infinity"} THEN "null" ELSE v.s
    [] v.t = "string" -> Quote(v.s)
    [] v.t = "date" -> Quote(v.s)
    [] v.t = "array" -> "[" \o StringifyElements(v.e, 1, "") \o "]"
    [] v.t = "object" -> "{" \o StringifyMembers(v.e, 1, "") \o "}"

Joined(acc, one) == IF acc = "" THEN one ELSE acc \o "," \o one

StringifyElements(elems, i, acc) ==
  IF i > Len(elems) THEN acc
  ELSE StringifyElements(elems, i + 1,
         Joined(acc, IF elems[i].t = "undefined" THEN "null"
                     ELSE JSON_stringify(elems[i])))

StringifyMembers(entries, i, acc) ==
  IF i > Len(entries) THEN acc
  ELSE IF entries[i].v.t = "undefined" THEN StringifyMembers(entries, i + 1, acc)
  ELSE StringifyMembers(entries, i + 1,
         Joined(acc, Quote(entries[i].k) \o ":" \o JSON_stringify(entries[i].v)))

ParseFail == [ok |-> FALSE, v |-> Undefined, i |-> 0]

ParseOk(v, i) == [ok |-> TRUE, v |-> v, i |-> i]

RECURSIVE SkipWs(_, _)
SkipWs(text, i) == IF Ch(text, i) = " " THEN SkipWs(text, i + 1) ELSE i

RECURSIVE ParseString(_, _, _)
\* the characters after an opening quote, up to the closing one
ParseString(text, i, acc) ==
  CASE Ch(text, i) = "" -> ParseFail
    [] Ch(text, i) = "\"" -> ParseOk(Str(acc), i + 1)
    [] Ch(text, i) = "\\" ->
         IF Ch(text, i + 1) \in {"\"", "\\", "/"}
         THEN ParseString(text, i + 2, acc \o Ch(text, i + 1))
         ELSE ParseFail
    [] OTHER -> ParseString(text, i + 1, acc \o Ch(text, i))

RECURSIVE DigitsEnd(_, _)
DigitsEnd(text, i) == IF Ch(text, i) \in Digits THEN DigitsEnd(text, i + 1) ELSE i

\* the number from i whose digits start at j and end before k
NumberAt(text, i, j, k) ==
  IF k = j THEN ParseFail ELSE ParseOk(Num(SubSeq(text, i, k - 1)), k)

DigitsFrom(text, i, j) ==
  NumberAt(text, i, j, IF Ch(text, j) = "0" THEN j + 1 ELSE DigitsEnd(text, j))

ParseNumber(text, i) == DigitsFrom(text, i, IF Ch(text, i) = "-" THEN i + 1 ELSE i)

RECURSIVE ParseValue(_, _)
RECURSIVE ParseElements(_, _, _)
RECURSIVE ParseMembers(_, _, _)

\* the value that starts at i with the character c
ValueAt(text, i, c) ==
  CASE c = "{" -> ParseMembers(text, SkipWs(text, i + 1), <<>>)
    [] c = "[" -> ParseElements(text, SkipWs(text, i + 1), <<>>)
    [] c = "\"" -> ParseString(text, i + 1, "")
    [] c = "-" \/ c \in Digits -> ParseNumber(text, i)
    [] c = "t" /\ Sub(text, i, i + 3) = "true" -> ParseOk(True, i + 4)
    [] c = "f" /\ Sub(text, i, i + 4) = "false" -> ParseOk(False, i + 5)
    [] c = "n" /\ Sub(text, i, i + 3) = "null" -> ParseOk(Null, i + 4)
    [] OTHER -> ParseFail

ValueFrom(text, i) == ValueAt(text, i, Ch(text, i))

ParseValue(text, i) == ValueFrom(text, SkipWs(text, i))

\* after the element r of an array, at j
ElementNext(text, acc, c, j) ==
  CASE c = "," -> ParseElements(text, j + 1, acc)
    [] c = "]" -> ParseOk(Arr(acc), j + 1)
    [] OTHER -> ParseFail

ElementEnd(text, acc, j) == ElementNext(text, acc, Ch(text, j), j)

Element(text, acc, r) ==
  IF ~r.ok THEN ParseFail ELSE ElementEnd(text, Append(acc, r.v), SkipWs(text, r.i))

\* the elements of an array from i, after those of acc
ParseElements(text, i, acc) ==
  IF acc = <<>> /\ Ch(text, i) = "]" THEN ParseOk(Arr(<<>>), i + 1)
  ELSE Element(text, acc, ParseValue(text, i))

MemberNext(text, acc, c, j) ==
  CASE c = "," -> ParseMembers(text, SkipWs(text, j + 1), acc)
    [] c = "}" -> ParseOk(Obj(acc), j + 1)
    [] OTHER -> ParseFail

MemberEnd(text, acc, j) == MemberNext(text, acc, Ch(text, j), j)

MemberValue(text, acc, k, r) ==
  IF ~r.ok THEN ParseFail ELSE MemberEnd(text, Put(acc, k, r.v), SkipWs(text, r.i))

MemberColon(text, acc, k, i) ==
  IF Ch(text, i) = ":" THEN MemberValue(text, acc, k, ParseValue(text, i + 1))
  ELSE ParseFail

MemberKey(text, acc, key) ==
  IF ~key.ok THEN ParseFail ELSE MemberColon(text, acc, key.v.s, SkipWs(text, key.i))

\* the members of an object from i (no space before it), after those of acc
ParseMembers(text, i, acc) ==
  CASE acc = <<>> /\ Ch(text, i) = "}" -> ParseOk(Obj(<<>>), i + 1)
    [] Ch(text, i) = "\"" -> MemberKey(text, acc, ParseString(text, i + 1, ""))
    [] OTHER -> ParseFail

Whole(text, r) ==
  IF r.ok /\ SkipWs(text, r.i) = Len(text) + 1 THEN r ELSE ParseFail

\* JSON.parse(text): ok is FALSE where it throws a SyntaxError
JSON_parse(text) == Whole(text, ParseValue(text, 1))

----------------------------------------------------------------------------
(* The symmetric cipher.  AES-256-GCM itself is Node's: a sealed text     *)
(* opens under the key, the iv and the additional data it was sealed      *)
(* with, and under no other.                                              *)

ALGORITHM == "aes-256-gcm"

AAD == "secure-capsule"

RECURSIVE Base64Chars(_, _)
\* the number of characters of a base64 text before its padding
Base64Chars(key, i) ==
  IF i > Len(key) \/ Ch(key, i) = "=" THEN i - 1 ELSE Base64Chars(key, i + 1)

\* Buffer.from(key, 'base64').length
Base64Bytes(key) == (Base64Chars(key, 1) * 6) \div 8

\* keyToBuffer(key): ok is FALSE where it throws
keyToBuffer(key) == [ok |-> Base64Bytes(key) = 32, v |-> key]

\* cipher.update(plaintext) + cipher.final() and cipher.getAuthTag()
Seal(key, iv, aad, plaintext) ==
  [ct |-> [key |-> key, iv |-> iv, pt |-> plaintext],
   tag |-> [key |-> key, iv |-> iv, aad |-> aad, pt |-> plaintext]]

\* decipher.update(ciphertext) + decipher.final(): ok is FALSE where final throws
Open(key, iv, aad, ct, tag) ==
  [ok |-> tag = [key |-> key, iv |-> iv, aad |-> aad, pt |-> ct.pt]
            /\ ct.key = key /\ ct.iv = iv,
   pt |-> ct.pt]

Failed == [ok |-> FALSE, v |-> Undefined]

Done(v) == [ok |-> TRUE, v |-> v]

\* const plaintext = typeof data === 'string' ? data : JSON.stringify(data)
Plaintext(d) == IF typeOf(d) = "string" THEN d.s ELSE JSON_stringify(d)

EncryptionResult(sealed, iv, now) ==
  [ciphertext |-> sealed.ct, algorithm |-> ALGORITHM, iv |-> iv,
   authTag |-> sealed.tag, timestamp |-> now]

\* encryptSymmetric(data, secretKey): iv is crypto.randomBytes(IV_LENGTH),
\* now is Date.now(); ok is FALSE where it throws
encryptSymmetric(d, secretKey, iv, now) ==
  IF d.t = "undefined" \/ ~keyToBuffer(secretKey).ok THEN Failed
  ELSE Done(EncryptionResult(Seal(secretKey, iv, AAD, Plaintext(d)), iv, now))

\* try { data = JSON.parse(plaintext) } catch { data = plaintext }
ParsedOrText(parsed, plaintext) ==
  IF parsed.ok THEN Done(parsed.v) ELSE Done(Str(plaintext))

Opened(o) == IF ~o.ok THEN Failed ELSE ParsedOrText(JSON_parse(o.pt), o.pt)

\* decryptSymmetric(encryptionResult, secretKey), its .data
decryptSymmetric(r, secretKey) ==
  IF ~keyToBuffer(secretKey).ok \/ r.algorithm # ALGORITHM THEN Failed
  ELSE Opened(Open(secretKey, r.iv, AAD, r.ciphertext, r.authTag))

\* the string Buffer.from(JSON.stringify(r)).toString('base64')
Token(r) == [t |-> "string", s |-> "", e |-> <<>>, x |-> <<r>>]

IsToken(v) == v.t = "string" /\ v.x # <<>>

IV_LENGTH == 16

TAG_LENGTH == 16

\* the length of buffer.toString('base64') for a buffer of n bytes
Base64Length(n) == 4 * ((n + 2) \div 3)

\* the '=' characters that end it
Base64Padding(n) == (3 - (n % 3)) % 3

\* the length of JSON.stringify(result) for the EncryptionResult r of
\* encryptSymmetric
TransmissionLength(r) ==
  Len("{\"ciphertext\":\"\",\"algorithm\":\"\",\"iv\":\"\",\"authTag\":\"\",\"timestamp\":}")
    + Base64Length(Len(r.ciphertext.pt)) + Len(r.algorithm)
    + Base64Length(IV_LENGTH) + Base64Length(TAG_LENGTH) + Len(ToString(r.timestamp))

\* the token without its last character
Shortened(token) ==
  [token EXCEPT !.x = <<token.x[1], IF Len(token.x) = 1 THEN 1 ELSE token.x[2] + 1>>]

\* Buffer.from(encodedData, 'base64').toString('utf8') is the whole JSON
\* text: Buffer.from stops at the padding and accepts its absence, and a
\* text that lost a character of its last group lacks its last bytes
WholeText(encodedData) ==
  Len(encodedData.x) = 1
    \/ encodedData.x[2] <= Base64Padding(TransmissionLength(encodedData.x[1]))

\* decryptSymmetricFromTransmission that reads an EncryptionResult from a
\* text that lost its end
decryptSymmetricFromTransmission_Lenient(encodedData, secretKey) ==
  IF IsToken(encodedData) THEN decryptSymmetric(encodedData.x[1], secretKey)
  ELSE Failed

Transmitted(r) == IF r.ok THEN Done(Token(r.v)) ELSE Failed

\* encryptSymmetricForTransmission(data, secretKey)
encryptSymmetricForTransmission(d, secretKey, iv, now) ==
  Transmitted(encryptSymmetric(d, secretKey, iv, now))

\* decryptSymmetricFromTransmission(encodedData, secretKey): a text that is
\* no transmission form fails in JSON.parse or in decryptSymmetric
decryptSymmetricFromTransmission(encodedData, secretKey) ==
  IF IsToken(encodedData) /\ WholeText(encodedData)
  THEN decryptSymmetric(encodedData.x[1], secretKey)
  ELSE Failed

(* The asymmetric cipher.  RSA-OAEP itself is Node's: publicEncrypt takes *)
(* a message of at most k - 2 hLen - 2 bytes, k the bytes of the modulus  *)
(* and hLen those of the OAEP hash, and what it returns opens under the   *)
(* private key of the pair and under no other.                            *)

RSA_KEY_SIZE == 2048

\* the bytes of a digest of HASH_ALGORITHM, 'sha256'
HashLength == 32

\* what generateKeyPair returns, twice
KeyPairs ==
  { [publicKey |-> "cHVibGljLUE=", privateKey |-> "cHJpdmF0ZS1B"],
    [publicKey |-> "cHVibGljLUI=", privateKey |-> "cHJpdmF0ZS1C"] }

IsPublicKey(key) == \E pair \in KeyPairs : pair.publicKey = key

IsPrivateKey(key) == \E pair \in KeyPairs : pair.privateKey = key

\* the longest message crypto.publicEncrypt takes with oaepHash
OaepLimit == RSA_KEY_SIZE \div 8 - 2 * HashLength - 2

\* crypto.publicEncrypt({key, padding, oaepHash}, chunk): ok is FALSE where
\* it throws
publicEncrypt(publicKey, chunk, seed) ==
  [ok |-> IsPublicKey(publicKey) /\ Len(chunk) <= OaepLimit,
   v |-> [key |-> publicKey, pt |-> chunk, seed |-> seed]]

\* crypto.privateDecrypt({key, padding, oaepHash}, chunk)
privateDecrypt(privateKey, chunk) ==
  [ok |-> [publicKey |-> chunk.key, privateKey |-> privateKey] \in KeyPairs,
   pt |-> chunk.pt]

\* const maxChunkSize = (RSA_KEY_SIZE / 8) - 42
maxChunkSize == RSA_KEY_SIZE \div 8 - 42

RECURSIVE Slices(_, _, _)
\* plaintext.slice(i, i + size) for i = 0, size, 2 size, ... below its length;
\* i counts from 1 here
Slices(plaintext, i, size) ==
  IF i > Len(plaintext) THEN <<>>
  ELSE <<Sub(plaintext, i, IF i + size - 1 > Len(plaintext) THEN Len(plaintext)
                           ELSE i + size - 1)>>
         \o Slices(plaintext, i + size, size)

\* the chunks encryptAsymmetric hands to publicEncrypt
AsymmetricChunks(plaintext) == Slices(plaintext, 1, maxChunkSize)

EncryptedChunks(publicKey, slices, seed) ==
  [i \in 1..Len(slices) |-> publicEncrypt(publicKey, slices[i], <<seed, i>>)]

AsymmetricResult(encrypted, now) ==
  IF \E i \in 1..Len(encrypted) : ~encrypted[i].ok THEN Failed
  ELSE Done([ciphertext |-> [i \in 1..Len(encrypted) |-> encrypted[i].v],
             algorithm |-> "RSA-OAEP", timestamp |-> now])

\* encryptAsymmetric(data, publicKey): seed is the randomness of the OAEP
\* padding, now is Date.now(); ok is FALSE where it throws.  The ciphertext
\* is the list of the chunks, which JSON.stringify writes and JSON.parse
\* reads back as it was: a chunk is base64 text
encryptAsymmetric(d, publicKey, seed, now) ==
  IF d.t = "undefined" THEN Failed
  ELSE AsymmetricResult(EncryptedChunks(publicKey, AsymmetricChunks(Plaintext(d)), seed),
                        now)

RECURSIVE Concatenated(_, _, _)
\* plaintext += decryptedChunk.toString('utf8'), chunk after chunk
Concatenated(opened, i, plaintext) ==
  IF i > Len(opened) THEN plaintext
  ELSE Concatenated(opened, i + 1, plaintext \o opened[i].pt)

DecryptedChunks(opened) ==
  IF \E i \in 1..Len(opened) : ~opened[i].ok THEN Failed
  ELSE ParsedOrText(JSON_parse(Concatenated(opened, 1, "")), Concatenated(opened, 1, ""))

\* decryptAsymmetric(encryptionResult, privateKey), its .data: the
\* ciphertext of another algorithm is no JSON list of chunks
decryptAsymmetric(r, privateKey) ==
  IF r.algorithm # "RSA-OAEP" THEN Failed
  ELSE DecryptedChunks([i \in 1..Len(r.ciphertext) |->
                          privateDecrypt(privateKey, r.ciphertext[i])])

\* encryptAsymmetricForTransmission(data, publicKey)
encryptAsymmetricForTransmission(d, publicKey, seed, now) ==
  Transmitted(encryptAsymmetric(d, publicKey, seed, now))

\* decryptAsymmetricFromTransmission(encodedData, privateKey)
decryptAsymmetricFromTransmission(encodedData, privateKey) ==
  IF IsToken(encodedData) /\ Len(encodedData.x) = 1
  THEN decryptAsymmetric(encodedData.x[1], privateKey)
  ELSE Failed

\* this.config[name], "" where the property is absent or undefined
Field(cfg, name) == IF name \in DOMAIN cfg THEN cfg[name] ELSE ""

\* SecureCapsule.encrypt(data)
capsule_encrypt(cfg, d, iv, now) ==
  IF cfg.mode = "symmetric"
  THEN encryptSymmetricForTransmission(d, Field(cfg, "secretKey"), iv, now)
  ELSE encryptAsymmetricForTransmission(d, Field(cfg, "publicKey"), iv, now)

\* SecureCapsule.decrypt(cipherText)
capsule_decrypt(cfg, cipherText) ==
  IF cfg.mode = "symmetric"
  THEN decryptSymmetricFromTransmission(cipherText, Field(cfg, "secretKey"))
  ELSE decryptAsymmetricFromTransmission(cipherText, Field(cfg, "privateKey"))

----------------------------------------------------------------------------
(* FieldEncryption *)

chars == "abcdefghijklmnopqrstuvwxyzABCDEFGHIJKLMNOPQRSTUVWXYZ"

NameBase == 6

NameSpread == 8

RECURSIVE NameChars(_, _, _, _)
NameChars(draw, i, length, result) ==
  IF i >= length THEN result
  ELSE NameChars(draw, i + 1, length, result \o Ch(chars, draw[i + 2] + 1))

\* generateRandomFieldName with the loop one round short
generateRandomFieldName_Shorter(draw) ==
  NameChars(draw, 0, draw[1] + NameBase - 1, "")

\* generateRandomFieldName(): draw[1] is Math.floor(Math.random() * 8) and
\* draw[i + 2] is Math.floor(Math.random() * chars.length) of round i
generateRandomFieldName(draw) ==
  NameChars(draw, 0, draw[1] + NameBase, "")

\* isPlainObject(value)
isPlainObject(value) ==
  typeOf(value) = "object" /\ value.t # "null" /\ value.t # "array" /\ value.t # "date"

\* result[obfuscatedField] = <nested result>; mapping[originalField] =
\* { _field, _nested }, after the nested call left nested
NestedField(originalField, obfuscatedField, st, nested) ==
  [nested EXCEPT
     !.result = Put(st.result, obfuscatedField, Obj(nested.result)),
     !.mapping = Put(st.mapping, originalField,
                     Obj(<<Ent("_field", Str(obfuscatedField)),
                           Ent("_nested", Obj(nested.mapping))>>))]

\* LeafField with the result stored under the original name
LeafField_OriginalName(originalField, obfuscatedField, st, encryptedValue) ==
  [ok |-> encryptedValue.ok,
   result |-> Put(st.result, originalField, encryptedValue.v),
   mapping |-> Put(st.mapping, originalField, Str(obfuscatedField)),
   rand |-> Tail(st.rand),
   ivs |-> Tail(st.ivs)]

\* LeafField with the mapping entry the wrong way round
LeafField_Swapped(originalField, obfuscatedField, st, encryptedValue) ==
  [ok |-> encryptedValue.ok,
   result |-> Put(st.result, obfuscatedField, encryptedValue.v),
   mapping |-> Put(st.mapping, obfuscatedField, Str(originalField)),
   rand |-> Tail(st.rand),
   ivs |-> Tail(st.ivs)]

\* result[obfuscatedField] = encryptedValue; mapping[originalField] =
\* obfuscatedField
LeafField(originalField, obfuscatedField, st, encryptedValue) ==
  [ok |-> encryptedValue.ok,
   result |-> Put(st.result, obfuscatedField, encryptedValue.v),
   mapping |-> Put(st.mapping, originalField, Str(obfuscatedField)),
   rand |-> Tail(st.rand),
   ivs |-> Tail(st.ivs)]

RECURSIVE encryptEntries(_, _, _, _)

\* one round of the loop of encryptNestedObject, for a value that is not
\* undefined
encryptField(cfg, originalField, value, obfuscatedField, st, now) ==
  IF isPlainObject(value)
  THEN NestedField(originalField, obfuscatedField, st,
         encryptEntries(cfg, value.e,
           [st EXCEPT !.rand = Tail(st.rand), !.result = <<>>, !.mapping = <<>>], now))
  ELSE LeafField(originalField, obfuscatedField, st,
         capsule_encrypt(cfg, value, Head(st.ivs), now))

\* encryptEntries without the skip of undefined values: capsule.encrypt of
\* undefined throws
encryptEntries_NoSkip(cfg, entries, st, now) ==
  IF entries = <<>> \/ ~st.ok THEN st
  ELSE IF Head(entries).v.t = "undefined" THEN [st EXCEPT !.ok = FALSE]
  ELSE encryptEntries(cfg, Tail(entries),
         encryptField(cfg, Head(entries).k, Head(entries).v,
                      generateRandomFieldName(Head(st.rand)), st, now),
         now)

\* the loop of encryptNestedObject over Object.entries(data), from the
\* entries still to visit; st holds result and mapping so far and the
\* draws of Math.random and crypto.randomBytes still to come
encryptEntries(cfg, entries, st, now) ==
  IF entries = <<>> \/ ~st.ok THEN st
  ELSE IF Head(entries).v.t = "undefined" THEN encryptEntries(cfg, Tail(entries), st, now)
  ELSE encryptEntries(cfg, Tail(entries),
         encryptField(cfg, Head(entries).k, Head(entries).v,
                      generateRandomFieldName(Head(st.rand)), st, now),
         now)

\* encryptNestedObject(data, mapping)
encryptNestedObject(cfg, d, rand, ivs, now) ==
  encryptEntries(cfg, d.e,
    [ok |-> TRUE, result |-> <<>>, mapping |-> <<>>, rand |-> rand, ivs |-> ivs], now)

Digit(n) == Ch("0123456789", (n % 10) + 1)

Pad2(n) == Digit(n \div 10) \o Digit(n)

Pad3(n) == Digit(n \div 100) \o Digit(n \div 10) \o Digit(n)

\* new Date(ms).toISOString(), for the first hour of the epoch
toISOString(ms) ==
  "1970-01-01T00:" \o Pad2((ms \div 60000) % 60) \o ":" \o Pad2((ms \div 1000) % 60)
    \o "." \o Pad3(ms % 1000) \o "Z"

Thrown(err, st) ==
  [err |-> err, v |-> Undefined, inner |-> Undefined, mapping |-> Undefined,
   rand |-> st.rand, ivs |-> st.ivs]

\* result._mapping = this.capsule.encrypt(mapping); return result
WithMapping(result, st, token) ==
  IF ~token.ok THEN Thrown("Symmetric encryption failed", st)
  ELSE [err |-> "", v |-> Obj(Put(result, "_mapping", token.v)),
        inner |-> Obj(Put(result, "_mapping", token.v)),
        mapping |-> Obj(st.mapping), rand |-> st.rand, ivs |-> Tail(st.ivs)]

\* const result = { encrypted: true, timestamp: ..., ...encryptedData }
Assembled(cfg, st, now) ==
  IF ~st.ok THEN Thrown("Symmetric encryption failed", st)
  ELSE WithMapping(Spread(<<Ent("encrypted", True),
                            Ent("timestamp", Str(toISOString(now)))>>, st.result),
                   st, capsule_encrypt(cfg, Obj(st.mapping), Head(st.ivs), now))

\* encryptFields(data): err is the message of the error thrown, "" for none
encryptFields(cfg, d, rand, ivs, now) ==
  IF typeOf(d) # "object" \/ d.t = "null" \/ d.t = "array"
  THEN Thrown("Field encryption requires a plain object", [rand |-> rand, ivs |-> ivs])
  ELSE Assembled(cfg, encryptNestedObject(cfg, d, rand, ivs, now), now)

\* Object.entries(v): ok is FALSE where it throws a TypeError
ObjectEntries(v) ==
  CASE v.t \in {"undefined", "null"} -> [ok |-> FALSE, e |-> <<>>]
    [] v.t = "object" -> [ok |-> TRUE, e |-> v.e]
    [] v.t = "array" ->
         [ok |-> TRUE, e |-> [i \in 1..Len(v.e) |-> Ent(ToString(i - 1), v.e[i])]]
    [] v.t = "string" ->
         [ok |-> TRUE, e |-> [i \in 1..Len(v.s) |-> Ent(ToString(i - 1), Str(Ch(v.s, i)))]]
    [] OTHER -> [ok |-> TRUE, e |-> <<>>]

\* result[originalField] = <nested result>
NestedDecrypted(originalField, st, nested) ==
  [ok |-> nested.ok, err |-> nested.err,
   result |-> Put(st.result, originalField, Obj(nested.result)),
   calls |-> st.calls + nested.calls]

\* result[originalField] = this.capsule.decrypt(encryptedValue)
LeafDecrypted(originalField, st, plain) ==
  [ok |-> plain.ok,
   err |-> IF plain.ok THEN "" ELSE "Failed to decrypt transmission data",
   result |-> Put(st.result, originalField, plain.v),
   calls |-> st.calls + 1]

RECURSIVE decryptNestedObject(_, _, _)

\* the nested branch that takes an empty record as no record
decryptNestedField_NonEmpty(cfg, originalField, nestedEncryptedData, nestedFieldMapping, st) ==
  IF Truthy(nestedEncryptedData) /\ isPlainObject(nestedEncryptedData)
       /\ nestedEncryptedData.e # <<>>
  THEN NestedDecrypted(originalField, st,
         decryptNestedObject(cfg, nestedEncryptedData, nestedFieldMapping))
  ELSE st

\* the nested branch, with nestedEncryptedData = encryptedData[obfuscatedField]
decryptNestedField(cfg, originalField, nestedEncryptedData, nestedFieldMapping, st) ==
  IF Truthy(nestedEncryptedData) /\ isPlainObject(nestedEncryptedData)
  THEN NestedDecrypted(originalField, st,
         decryptNestedObject(cfg, nestedEncryptedData, nestedFieldMapping))
  ELSE st

\* the primitive branch, with encryptedValue = encryptedData[obfuscatedField]
decryptLeafField(cfg, originalField, encryptedValue, st) ==
  IF typeOf(encryptedValue) = "string"
  THEN LeafDecrypted(originalField, st, capsule_decrypt(cfg, encryptedValue))
  ELSE st

\* one round of the loop of decryptNestedObject
decryptField(cfg, encryptedData, originalField, mappingValue, st) ==
  IF mappingValue.t = "null" THEN [st EXCEPT !.ok = FALSE, !.err = "TypeError"]
  ELSE IF typeOf(mappingValue) = "object"
          /\ In("_field", mappingValue) /\ In("_nested", mappingValue)
  THEN decryptNestedField(cfg, originalField,
         Get(encryptedData, Get(mappingValue, "_field").s),
         Get(mappingValue, "_nested"), st)
  ELSE IF typeOf(mappingValue) = "string"
  THEN decryptLeafField(cfg, originalField, Get(encryptedData, mappingValue.s), st)
  ELSE st

RECURSIVE decryptEntries(_, _, _, _)
\* the loop of decryptNestedObject over Object.entries(mapping); st holds
\* the result so far and the number of calls of capsule.decrypt
decryptEntries(cfg, encryptedData, entries, st) ==
  IF entries = <<>> \/ ~st.ok THEN st
  ELSE decryptEntries(cfg, encryptedData, Tail(entries),
         decryptField(cfg, encryptedData, Head(entries).k, Head(entries).v, st))

EntriesOf(cfg, encryptedData, entries) ==
  IF ~entries.ok THEN [ok |-> FALSE, err |-> "TypeError", result |-> <<>>, calls |-> 0]
  ELSE decryptEntries(cfg, encryptedData, entries.e,
         [ok |-> TRUE, err |-> "", result |-> <<>>, calls |-> 0])

\* decryptNestedObject(encryptedData, mapping)
decryptNestedObject(cfg, encryptedData, m) ==
  EntriesOf(cfg, encryptedData, ObjectEntries(m))

\* const { encrypted, timestamp, _mapping, ...dataOnly } = encryptedData
DataOnly(encryptedData) ==
  Obj(Without(Without(Without(encryptedData.e, "encrypted"), "timestamp"), "_mapping"))

Resolved(r) ==
  IF ~r.ok THEN [err |-> r.err, v |-> Undefined, calls |-> 1 + r.calls]
  ELSE [err |-> "", v |-> Obj(r.result), calls |-> 1 + r.calls]

MappingDecrypted(cfg, encryptedData, m) ==
  IF ~m.ok
  THEN [err |-> "Failed to decrypt transmission data", v |-> Undefined, calls |-> 1]
  ELSE Resolved(decryptNestedObject(cfg, DataOnly(encryptedData), m.v))

\* decryptFields(encryptedData): err is the message of the error thrown, ""
\* for none; calls counts the calls of capsule.decrypt
decryptFields(cfg, encryptedData) ==
  IF ~Truthy(Get(encryptedData, "encrypted")) \/ ~Truthy(Get(encryptedData, "_mapping"))
  THEN [err |-> "Invalid field-encrypted data structure", v |-> Undefined, calls |-> 0]
  ELSE MappingDecrypted(cfg, encryptedData,
         capsule_decrypt(cfg, Get(encryptedData, "_mapping")))

PaddingAdded(result, paddingField, token) ==
  [ok |-> token.ok, v |-> IF token.ok THEN Put(result, paddingField, token.v) ELSE result]

RECURSIVE addPadding(_, _, _, _, _, _)
\* the loop of encryptFieldsWithPadding from round i, the rounds before it
\* having left r: pads[i + 1] holds the draw of the padding field's name,
\* the text of Math.random().toString(36).substring(2, 15) and the iv of its
\* encryption
addPadding(cfg, r, i, paddingFields, pads, now) ==
  IF i >= paddingFields \/ ~r.ok THEN r
  ELSE addPadding(cfg,
         PaddingAdded(r.v, generateRandomFieldName(pads[i + 1].draw),
                      capsule_encrypt(cfg, Str(pads[i + 1].junk), pads[i + 1].iv, now)),
         i + 1, paddingFields, pads, now)

Padded(result, padded) ==
  IF ~padded.ok THEN [result EXCEPT !.err = "Symmetric encryption failed", !.v = Undefined]
  ELSE [result EXCEPT !.v = Obj(padded.v)]

WithPadding(cfg, result, paddingFields, pads, now) ==
  IF result.err # "" THEN result
  ELSE Padded(result,
         addPadding(cfg, [ok |-> TRUE, v |-> result.v.e], 0, paddingFields, pads, now))

\* encryptFieldsWithPadding(data, paddingFields)
encryptFieldsWithPadding(cfg, d, paddingFields, rand, ivs, pads, now) ==
  WithPadding(cfg, encryptFields(cfg, d, rand, ivs, now), paddingFields, pads, now)

----------------------------------------------------------------------------
(* The calls: one record is encoded, travels, and is decoded.             *)
(*   data      the argument of the encode call                            *)
(*   envelope  what the encode call returned                              *)
(*   inner     what encryptFields returned inside it (before padding)     *)
(*   mapping   the mapping encryptFields built, before its encryption     *)
(*   decoys    the names of the padding fields, in the order added        *)
(*   draws     what Math.random and crypto.randomBytes gave the call      *)
(*   wire      the envelope as it reaches decryptFields                   *)
(*   touched   the path of the property changed on the way, <<>> if none  *)
(*   output    what decryptFields returned                                *)
(*   error     the message of the error the last call threw, "" if none   *)
(*   cipherCalls  the calls of capsule.decrypt the decode call made       *)
(*   clock     the time, in milliseconds                                  *)
(*   before    the calls that ended before this one, oldest first         *)
(*   env       process.env as loadEnvironmentConfig reads it              *)
(*   supplied  the argument the capsule was constructed with              *)
(*   options   the MiddlewareOptions of createSecureMiddleware            *)
(*   headers   the calls of res.setHeader, in order                       *)
(*   sent      the calls of the original res.json, in order               *)
(*   nexts     the calls of next                                          *)
(*   requests  the requests the middleware was run for                    *)

MaxClock == 1

MaxPadding == 1

SecretKey == "MDEyMzQ1Njc4OWFiY2RlZjAxMjM0NTY3ODlhYmNkZWY="

\* what Math.random gives generateRandomFieldName: the names "aaaaaa",
\* "bbbbbb", "userName" and "encrypted"
RandomDraws ==
  { <<0, 0, 0, 0, 0, 0, 0>>,
    <<0, 1, 1, 1, 1, 1, 1>>,
    <<2, 20, 18, 4, 17, 39, 0, 12, 4>>,
    <<3, 4, 13, 2, 17, 24, 15, 19, 4, 3>> }

\* what crypto.randomBytes gives
IVs == {"iv0"}

\* what Math.random().toString(36).substring(2, 15) gives
Junk == {"4fzyo8"}

ISODate == "2024-01-15T10:30:00.000Z"

Records ==
  { Obj(<<>>),
    Obj(<<Ent("a", Num("1")), Ent("b", Undefined)>>),
    Obj(<<Ent("s", Str("123"))>>),
    Obj(<<Ent("o", Obj(<<Ent("u", Undefined), Ent("v", False)>>))>>),
    Obj(<<Ent("userName", Str("Ann")), Ent("n", Null)>>),
    Obj(<<Ent("d", DateV(ISODate)), Ent("l", Arr(<<Num("1"), Str("x")>>))>>),
    Obj(<<Ent("user", Obj(<<Ent("name", Str("Ann"))>>)), Ent("active", True)>>),
    Obj(<<Ent("e", Obj(<<>>)), Ent("l", Arr(<<Num("1"), Null, True>>))>>),
    Obj(<<Ent("x", Num("NaN"))>>) }

NonRecords ==
  { Undefined, Null, Num("5"), Str("text"), True, Arr(<<Num("1")>>), DateV(ISODate) }

Inputs == Records \cup NonRecords

RECURSIVE CountNames(_)
\* the calls of generateRandomFieldName that encoding the entries makes
CountNames(entries) ==
  IF entries = <<>> THEN 0
  ELSE LET value == Head(entries).v
       IN CountNames(Tail(entries))
          + (IF value.t = "undefined" THEN 0
             ELSE IF isPlainObject(value) THEN 1 + CountNames(value.e) ELSE 1)

RECURSIVE CountLeaves(_)
\* the calls of capsule.encrypt that encoding the entries makes
CountLeaves(entries) ==
  IF entries = <<>> THEN 0
  ELSE LET value == Head(entries).v
       IN CountLeaves(Tail(entries))
          + (IF value.t = "undefined" THEN 0
             ELSE IF isPlainObject(value) THEN CountLeaves(value.e) ELSE 1)

NeedNames(d) == IF d.t = "object" THEN CountNames(d.e) ELSE 0

NeedIvs(d) == IF d.t = "object" THEN CountLeaves(d.e) + 1 ELSE 1

Init ==
  /\ config = [mode |-> "symmetric", algorithm |-> "AES-256-GCM", secretKey |-> SecretKey]
  /\ data = Undefined
  /\ pc = "idle"
  /\ envelope = Undefined
  /\ inner = Undefined
  /\ mapping = Undefined
  /\ decoys = <<>>
  /\ draws = [rand |-> <<>>, ivs |-> <<>>, pads |-> <<>>]
  /\ wire = Undefined
  /\ touched = <<>>
  /\ output = Undefined
  /\ error = ""
  /\ cipherCalls = 0
  /\ clock = 0
  /\ before = <<>>
  /\ env = [SECURE_KEY |-> "", PUBLIC_KEY |-> "", PRIVATE_KEY |-> ""]
  /\ supplied = [mode |-> "symmetric", secretKey |-> SecretKey]
  /\ options = [mode |-> "symmetric", secretKey |-> SecretKey]
  /\ headers = <<>>
  /\ sent = <<>>
  /\ nexts = 0
  /\ requests = 0
  /\ listening = FALSE
  /\ marker = <<>>
  /\ reply = <<>>
  /\ passed = 0

\* time passes before the call
Tick ==
  /\ pc = "idle"
  /\ clock < MaxClock
  /\ clock' = clock + 1
  /\ UNCHANGED <<config, data, pc, envelope, inner, mapping, decoys, draws, wire, touched,
                 output, error, cipherCalls>>
  /\ UNCHANGED beyond

\* the call returns r, or throws r.err
Returned(d, r, names, drawn) ==
  /\ data' = d
  /\ draws' = drawn
  /\ IF r.err = ""
     THEN /\ pc' = "encrypted"
          /\ envelope' = r.v
          /\ inner' = r.inner
          /\ mapping' = r.mapping
          /\ decoys' = names
          /\ wire' = r.v
          /\ error' = ""
     ELSE /\ pc' = "threw"
          /\ error' = r.err
          /\ UNCHANGED <<envelope, inner, mapping, decoys, wire>>
  /\ UNCHANGED <<config, touched, output, cipherCalls, clock>>
  /\ UNCHANGED beyond

\* a call of encryptFields(d) with d in S
EncryptFieldsOf(S) ==
  /\ pc = "idle"
  /\ \E d \in S :
       \E rand \in [1..NeedNames(d) -> RandomDraws], ivs \in [1..NeedIvs(d) -> IVs] :
         Returned(d, encryptFields(config, d, rand, ivs, clock), <<>>,
                  [rand |-> rand, ivs |-> ivs, pads |-> <<>>])

EncryptFields == EncryptFieldsOf(Inputs)

\* a call of encryptFieldsWithPadding(d, n)
EncryptFieldsWithPadding ==
  /\ pc = "idle"
  /\ \E d \in Inputs, n \in 0..MaxPadding :
       \E rand \in [1..NeedNames(d) -> RandomDraws], ivs \in [1..NeedIvs(d) -> IVs],
          pads \in [1..n -> [draw : RandomDraws, junk : Junk, iv : IVs]] :
         Returned(d, encryptFieldsWithPadding(config, d, n, rand, ivs, pads, clock),
                  [i \in 1..n |-> generateRandomFieldName(pads[i].draw)],
                  [rand |-> rand, ivs |-> ivs, pads |-> pads])

Decoded(r) ==
  /\ pc' = IF r.err = "" THEN "decrypted" ELSE "rejected"
  /\ output' = r.v
  /\ error' = r.err
  /\ cipherCalls' = r.calls

\* a call of decryptFields(wire) that deletes the metadata from its argument
\* where the code destructures it
DecryptFields_Deletes ==
  /\ pc \in {"encrypted", "corrupted"}
  /\ Decoded(decryptFields(config, wire))
  /\ wire' = DataOnly(wire)
  /\ UNCHANGED <<config, data, envelope, inner, mapping, decoys, draws, touched, clock>>
  /\ UNCHANGED beyond

\* a call of decryptFields(wire)
DecryptFields ==
  /\ pc \in {"encrypted", "corrupted"}
  /\ Decoded(decryptFields(config, wire))
  /\ UNCHANGED <<config, data, envelope, inner, mapping, decoys, draws, wire, touched,
                 clock>>
  /\ UNCHANGED beyond

RECURSIVE PathsOf(_, _)
\* the paths of the properties of the entries from i on, at every depth
PathsOf(entries, i) ==
  IF i > Len(entries) THEN {}
  ELSE {<<entries[i].k>>}
       \cup (IF entries[i].v.t = "object"
             THEN {<<entries[i].k>> \o p : p \in PathsOf(entries[i].v.e, 1)}
             ELSE {})
       \cup PathsOf(entries, i + 1)

Paths(o) == PathsOf(o.e, 1)

RECURSIVE AtPath(_, _)
\* o[path[1]][path[2]]...
AtPath(o, path) ==
  IF path = <<>> THEN o
  ELSE IF o.t # "object" THEN Undefined
  ELSE AtPath(Get(o, Head(path)), Tail(path))

RECURSIVE SetAt(_, _, _)
\* o with the property at path set to v, or deleted when v is undefined
SetAt(o, path, v) ==
  IF Len(path) = 1
  THEN IF v.t = "undefined" THEN Obj(Without(o.e, path[1])) ELSE Obj(Put(o.e, path[1], v))
  ELSE Obj(Put(o.e, Head(path), SetAt(Get(o, Head(path)), Tail(path), v)))

\* what a property of the envelope may be replaced by on the way
Forged == {Null, False, Num("5"), Str("junk"), Obj(<<>>)}

Changed(path, v) ==
  /\ wire' = SetAt(wire, path, v)
  /\ touched' = path
  /\ pc' = "corrupted"
  /\ UNCHANGED <<config, data, envelope, inner, mapping, decoys, draws, output, error,
                 cipherCalls, clock>>
  /\ UNCHANGED beyond

\* the envelope loses one property on the way
Drop ==
  /\ pc = "encrypted"
  /\ \E path \in Paths(wire) : Changed(path, Undefined)

\* one property of the envelope is replaced on the way
Forge ==
  /\ pc = "encrypted"
  /\ \E path \in Paths(wire), v \in Forged : Changed(path, v)

\* the _mapping token loses its last character on the way
Truncate ==
  /\ pc = "encrypted"
  /\ IsToken(Get(wire, "_mapping"))
  /\ Changed(<<"_mapping">>, Shortened(Get(wire, "_mapping")))

WireInputs ==
  { Obj(<<Ent("s", Str("123")), Ent("n", Num("1"))>>),
    Obj(<<Ent("userName", Str("Ann")), Ent("n", Null)>>),
    Obj(<<Ent("user", Obj(<<Ent("name", Str("Ann"))>>)), Ent("active", True)>>) }

EncryptFieldsForWire == EncryptFieldsOf(WireInputs)

Next == Tick \/ EncryptFields \/ EncryptFieldsWithPadding \/ DecryptFields

Spec == Init /\ [][Next]_vars

NextWire == EncryptFieldsForWire \/ Drop \/ Forge \/ Truncate \/ DecryptFields

\* the calls with an envelope that is changed between them
SpecWire == Init /\ [][NextWire]_vars

----------------------------------------------------------------------------
(* Several calls on one engine, one after the other *)

MaxCalls == 2

\* the names and ivs drawn where calls are repeated
CallDraws == {<<0, 0, 0, 0, 0, 0, 0>>, <<0, 1, 1, 1, 1, 1, 1>>}

CallIVs == {"iv0", "iv1"}

CallInputs ==
  { Obj(<<Ent("s", Str("123"))>>),
    Obj(<<Ent("a", Num("1")), Ent("b", Undefined)>>) }

\* a call of encryptFields(d) on an engine that may have served calls
EncryptFieldsAgain ==
  /\ pc = "idle"
  /\ \E d \in CallInputs :
       \E rand \in [1..NeedNames(d) -> CallDraws], ivs \in [1..NeedIvs(d) -> CallIVs] :
         Returned(d, encryptFields(config, d, rand, ivs, clock), <<>>,
                  [rand |-> rand, ivs |-> ivs, pads |-> <<>>])

\* a call of encryptFieldsWithPadding(d, n) on such an engine
EncryptFieldsWithPaddingAgain ==
  /\ pc = "idle"
  /\ \E d \in CallInputs, n \in 0..MaxPadding :
       \E rand \in [1..NeedNames(d) -> {<<0, 0, 0, 0, 0, 0, 0>>}],
          ivs \in [1..NeedIvs(d) -> {"iv0"}],
          pads \in [1..n -> [draw : {<<0, 1, 1, 1, 1, 1, 1>>}, junk : Junk, iv : {"iv1"}]] :
         Returned(d, encryptFieldsWithPadding(config, d, n, rand, ivs, pads, clock),
                  [i \in 1..n |-> generateRandomFieldName(pads[i].draw)],
                  [rand |-> rand, ivs |-> ivs, pads |-> pads])

\* the decode call has returned; the engine is free for the next call
NextCall ==
  /\ pc \in {"decrypted", "rejected"}
  /\ Len(before) + 1 < MaxCalls
  /\ before' = Append(before, [data |-> data, envelope |-> envelope, mapping |-> mapping,
                               draws |-> draws, output |-> output, error |-> error])
  /\ pc' = "idle"
  /\ data' = Undefined
  /\ envelope' = Undefined
  /\ inner' = Undefined
  /\ mapping' = Undefined
  /\ wire' = Undefined
  /\ output' = Undefined
  /\ error' = ""
  /\ cipherCalls' = 0
  /\ draws' = [rand |-> <<>>, ivs |-> <<>>, pads |-> <<>>]
  /\ UNCHANGED <<config, decoys, touched, clock, env, supplied>>
  /\ UNCHANGED transport

NextCalls ==
  EncryptFieldsAgain \/ EncryptFieldsWithPaddingAgain \/ DecryptFields \/ NextCall

SpecCalls == Init /\ [][NextCalls]_vars

----------------------------------------------------------------------------
(* The capsule: its construction, its configuration, and encrypt and      *)
(* decrypt on single values.  A configuration is a record of the          *)
(* properties that are present; "" stands for undefined.                  *)

\* { ...a, ...b }
SpreadConfig(a, b) ==
  [f \in DOMAIN a \cup DOMAIN b |-> IF f \in DOMAIN b THEN b[f] ELSE a[f]]

\* !cfg.secretKey && !cfg.publicKey && !cfg.privateKey
NoKeys(cfg) ==
  Field(cfg, "secretKey") = "" /\ Field(cfg, "publicKey") = ""
    /\ Field(cfg, "privateKey") = ""

\* the constructor's "auto-configure from environment if keys not provided"
FromEnvironment(cfg, envConfig) ==
  IF ~NoKeys(cfg) THEN cfg
  ELSE IF cfg.mode = "symmetric" /\ envConfig.SECURE_KEY # ""
  THEN SpreadConfig(cfg, [secretKey |-> envConfig.SECURE_KEY])
  ELSE IF cfg.mode = "asymmetric" /\ envConfig.PUBLIC_KEY # ""
          /\ envConfig.PRIVATE_KEY # ""
  THEN SpreadConfig(cfg, [publicKey |-> envConfig.PUBLIC_KEY,
                          privateKey |-> envConfig.PRIVATE_KEY])
  ELSE cfg

\* validateConfig that asks for one key of the pair
validateConfig_EitherKey(cfg) ==
  IF cfg.mode = "symmetric"
  THEN IF Field(cfg, "secretKey") = "" THEN "Secret key is required for symmetric mode"
       ELSE ""
  ELSE IF cfg.mode = "asymmetric"
  THEN IF Field(cfg, "publicKey") = "" /\ Field(cfg, "privateKey") = ""
       THEN "Public and private keys are required for asymmetric mode"
       ELSE ""
  ELSE ""

\* validateConfig(): the message of the error it throws, "" if none
validateConfig(cfg) ==
  IF cfg.mode = "symmetric"
  THEN IF Field(cfg, "secretKey") = "" THEN "Secret key is required for symmetric mode"
       ELSE ""
  ELSE IF cfg.mode = "asymmetric"
  THEN IF Field(cfg, "publicKey") = "" \/ Field(cfg, "privateKey") = ""
       THEN "Public and private keys are required for asymmetric mode"
       ELSE ""
  ELSE ""

Validated(cfg) == [err |-> validateConfig(cfg), config |-> cfg]

\* new SecureCapsule(partial) where process.env is envConfig
SecureCapsule(partial, envConfig) ==
  Validated(FromEnvironment(
    SpreadConfig([mode |-> "symmetric", algorithm |-> "AES-256-GCM"], partial),
    envConfig))

\* updateConfig(partial)
updateConfig(cfg, partial) == Validated(SpreadConfig(cfg, partial))

\* getConfig()
getConfig(cfg) ==
  Obj(<<Ent("mode", Str(cfg.mode)), Ent("algorithm", Str(Field(cfg, "algorithm")))>>)

PublicKey == "cHVibGljLUE="

PrivateKey == "cHJpdmF0ZS1B"

\* what process.env may hold
Environments ==
  { [SECURE_KEY |-> "", PUBLIC_KEY |-> "", PRIVATE_KEY |-> ""],
    [SECURE_KEY |-> SecretKey, PUBLIC_KEY |-> "", PRIVATE_KEY |-> ""],
    [SECURE_KEY |-> "", PUBLIC_KEY |-> PublicKey, PRIVATE_KEY |-> PrivateKey],
    [SECURE_KEY |-> SecretKey, PUBLIC_KEY |-> "", PRIVATE_KEY |-> PrivateKey] }

\* what the constructor is called with; <<>> is {} or no argument
Configs ==
  { <<>>,
    [mode |-> "symmetric"],
    [mode |-> "asymmetric"],
    [mode |-> "symmetric", secretKey |-> SecretKey],
    [mode |-> "symmetric", secretKey |-> "invalid-key"],
    [mode |-> "symmetric", publicKey |-> PublicKey],
    [mode |-> "asymmetric", publicKey |-> PublicKey, privateKey |-> PrivateKey],
    [mode |-> "asymmetric", publicKey |-> PublicKey],
    [mode |-> "asymmetric", privateKey |-> PrivateKey],
    [mode |-> "asymmetric", algorithm |-> "RSA-OAEP", publicKey |-> PublicKey,
     privateKey |-> PrivateKey] }

\* what updateConfig is called with
Updates ==
  { [mode |-> "asymmetric", publicKey |-> PublicKey, privateKey |-> PrivateKey],
    [mode |-> "asymmetric"],
    [mode |-> "symmetric", secretKey |-> SecretKey],
    [secretKey |-> ""] }

RECURSIVE Repeat(_, _)
\* s.repeat(n)
Repeat(s, n) ==
  IF n = 0 THEN ""
  ELSE IF n % 2 = 1 THEN s \o Repeat(s, n - 1)
  ELSE Repeat(s \o s, n \div 2)

\* the lengths of the long strings
Lengths == {OaepLimit, OaepLimit + 1, maxChunkSize, maxChunkSize + 1, 1000}

\* what encrypt is called with
Values ==
  { Str(""), Str("Hello, World!"), Str("123"), Str("{\"a\":1}"),
    Obj(<<Ent("message", Str("Hello, World!")), Ent("number", Num("42")),
          Ent("array", Arr(<<Num("1"), Num("2"), Num("3")>>))>>),
    Arr(<<Str("x"), Null>>) }
  \cup {Str(Repeat("x", n)) : n \in Lengths}

InitCapsule ==
  /\ config = <<>>
  /\ data = Undefined
  /\ pc = "unbuilt"
  /\ envelope = Undefined
  /\ inner = Undefined
  /\ mapping = Undefined
  /\ decoys = <<>>
  /\ draws = [rand |-> <<>>, ivs |-> <<>>, pads |-> <<>>]
  /\ wire = Undefined
  /\ touched = <<>>
  /\ output = Undefined
  /\ error = ""
  /\ cipherCalls = 0
  /\ clock = 0
  /\ before = <<>>
  /\ env \in Environments
  /\ supplied = <<>>
  /\ options = <<>>
  /\ headers = <<>>
  /\ sent = <<>>
  /\ nexts = 0
  /\ requests = 0
  /\ listening = FALSE
  /\ marker = <<>>
  /\ reply = <<>>
  /\ passed = 0

\* what no operation of the capsule touches
engine ==
  <<envelope, inner, mapping, decoys, draws, touched, cipherCalls, clock, before,
    transport>>

Alive == pc \notin {"unbuilt", "threw"}

\* the constructor has run: r.err is the message of what it threw
Built(partial, r) ==
  /\ supplied' = partial
  /\ error' = r.err
  /\ pc' = IF r.err = "" THEN "ready" ELSE "threw"
  /\ config' = IF r.err = "" THEN r.config ELSE config

\* new SecureCapsule(partial)
Construct ==
  /\ pc = "unbuilt"
  /\ \E partial \in Configs : Built(partial, SecureCapsule(partial, env))
  /\ UNCHANGED <<data, wire, output, env>>
  /\ UNCHANGED engine

\* this.config is assigned before validateConfig runs
Updated(r) ==
  /\ config' = r.config
  /\ error' = r.err
  /\ pc' = IF r.err = "" THEN "updated" ELSE "updateThrew"

\* capsule.updateConfig(partial)
UpdateConfig ==
  /\ Alive
  /\ \E partial \in Updates : Updated(updateConfig(config, partial))
  /\ UNCHANGED <<data, wire, output, env, supplied>>
  /\ UNCHANGED engine

\* capsule.getConfig()
GetConfig ==
  /\ Alive
  /\ output' = getConfig(config)
  /\ pc' = "reported"
  /\ UNCHANGED <<config, data, wire, error, env, supplied>>
  /\ UNCHANGED engine

\* encrypt has returned r.v or thrown; nothing is decoded from it yet
Sealed(d, r) ==
  /\ data' = d
  /\ wire' = r.v
  /\ output' = Undefined
  /\ pc' = IF r.ok THEN "sealed" ELSE "sealFailed"
  /\ error' = IF r.ok THEN ""
              ELSE IF config.mode = "symmetric" THEN "Symmetric encryption failed"
              ELSE "Asymmetric encryption failed"

\* capsule.encrypt(d)
Encrypt ==
  /\ Alive
  /\ \E d \in Values, iv \in IVs : Sealed(d, capsule_encrypt(config, d, iv, clock))
  /\ UNCHANGED <<config, env, supplied>>
  /\ UNCHANGED engine

Unsealed(r) ==
  /\ output' = r.v
  /\ pc' = IF r.ok THEN "opened" ELSE "openFailed"
  /\ error' = IF r.ok THEN "" ELSE "Failed to decrypt transmission data"

\* capsule.decrypt(wire), wire what encrypt has just returned
Decrypt ==
  /\ pc = "sealed"
  /\ Unsealed(capsule_decrypt(config, wire))
  /\ UNCHANGED <<config, data, wire, env, supplied>>
  /\ UNCHANGED engine

NextCapsule == Construct \/ UpdateConfig \/ GetConfig \/ Encrypt \/ Decrypt

SpecCapsule == InitCapsule /\ [][NextCapsule]_vars

----------------------------------------------------------------------------
(* The Express middleware of createSecureMiddleware: the capsule it       *)
(* builds, and res.json and res.secure as it replaces them on a response  *)

MaxRequests == 2

MaxSends == 2

\* the argument of new SecureCapsule in createSecureMiddleware
CapsuleConfig(opts) ==
  [mode |-> IF Field(opts, "mode") = "" THEN "symmetric" ELSE opts.mode,
   secretKey |-> Field(opts, "secretKey"),
   publicKey |-> Field(opts, "publicKey")]

\* res.setHeader(options.encryptedHeader || 'X-Encrypted', 'true') and
\* res.setHeader('Content-Type', 'application/json')
MarkerHeaders(opts) ==
  << [name |-> IF Field(opts, "encryptedHeader") = "" THEN "X-Encrypted"
               ELSE opts.encryptedHeader,
      value |-> "true"],
     [name |-> "Content-Type", value |-> "application/json"] >>

\* options.fieldEncryption && typeof obj === 'object' && obj !== null
\* && !Array.isArray(obj)
FieldMode(opts, obj) ==
  Field(opts, "fieldEncryption") = "true" /\ typeOf(obj) = "object"
    /\ obj.t \notin {"null", "array"}

\* options.paddingFields, 0 where it is absent
PaddingFields(opts) == IF "paddingFields" \in DOMAIN opts THEN opts.paddingFields ELSE 0

\* capsule.encryptFields(data): the capsule hands the record to the
\* FieldEncryption engine built on itself
capsule_encryptFields(cfg, d, rand, ivs, now) == encryptFields(cfg, d, rand, ivs, now)

\* capsule.encryptFieldsWithPadding(data, paddingFields), likewise
capsule_encryptFieldsWithPadding(cfg, d, paddingFields, rand, ivs, pads, now) ==
  encryptFieldsWithPadding(cfg, d, paddingFields, rand, ivs, pads, now)

\* capsule.decryptFields(encryptedData) and
\* capsule.decryptFieldsIgnorePadding(encryptedData), likewise
capsule_decryptFields(cfg, encryptedData) == decryptFields(cfg, encryptedData)

\* the result of the field-level branch: ok is FALSE where it threw
FieldsResult(r) == [ok |-> r.err = "", v |-> r.v]

\* const encrypted = capsule.encrypt(obj); result = { encrypted }
StandardResult(r) == [ok |-> r.ok, v |-> Obj(<<Ent("encrypted", r.v)>>)]

\* the try block of res.json and of res.secure up to result; drawn is
\* the randomness the call consumes
EncryptedBody(opts, cfg, obj, drawn, now) ==
  IF FieldMode(opts, obj)
  THEN IF PaddingFields(opts) > 0
       THEN FieldsResult(capsule_encryptFieldsWithPadding(cfg, obj, PaddingFields(opts),
                           drawn.rand, drawn.ivs, drawn.pads, now))
       ELSE FieldsResult(capsule_encryptFields(cfg, obj, drawn.rand, drawn.ivs, now))
  ELSE StandardResult(capsule_encrypt(cfg, obj, drawn.ivs[1], now))

\* what goes to the original json without encryption
Plain(obj) == [body |-> obj, set |-> <<>>, err |-> ""]

\* the headers, originalJson(result); in the catch block of res.json,
\* originalJson(obj)
EncryptedOrPlain(opts, obj, r) ==
  IF r.ok THEN [body |-> r.v, set |-> MarkerHeaders(opts), err |-> ""]
  ELSE Plain(obj)

\* res.json that encrypts whatever autoEncrypt says
res_json_Always(opts, cfg, obj, drawn, now) ==
  EncryptedOrPlain(opts, obj, EncryptedBody(opts, cfg, obj, drawn, now))

\* the res.json of the middleware: the body handed to the original json
\* and the headers set before
res_json(opts, cfg, obj, drawn, now) ==
  IF Field(opts, "autoEncrypt") # "false"
  THEN EncryptedOrPlain(opts, obj, EncryptedBody(opts, cfg, obj, drawn, now))
  ELSE Plain(obj)

\* in the catch block of res.secure, throw error
EncryptedOrThrown(opts, obj, r) ==
  IF r.ok THEN EncryptedOrPlain(opts, obj, r)
  ELSE [body |-> Undefined, set |-> <<>>, err |-> "Encryption error"]

\* res.secure that falls back to the plain body as res.json does
res_secure_Fallback(opts, cfg, obj, drawn, now) ==
  EncryptedOrPlain(opts, obj, EncryptedBody(opts, cfg, obj, drawn, now))

\* res.secure(obj)
res_secure(opts, cfg, obj, drawn, now) ==
  EncryptedOrThrown(opts, obj, EncryptedBody(opts, cfg, obj, drawn, now))

\* the options createSecureMiddleware is called with
OptionSets ==
  { <<>>,
    [mode |-> "symmetric", secretKey |-> SecretKey, autoEncrypt |-> "true"],
    [mode |-> "symmetric", secretKey |-> SecretKey],
    [mode |-> "symmetric", secretKey |-> SecretKey, autoEncrypt |-> "false"],
    [secretKey |-> SecretKey, encryptedHeader |-> "X-Sealed"],
    [mode |-> "symmetric", secretKey |-> "invalid-key"],
    [mode |-> "asymmetric", autoEncrypt |-> "true"],
    [mode |-> "asymmetric", publicKey |-> PublicKey],
    [mode |-> "asymmetric", autoEncrypt |-> "false"],
    [mode |-> "symmetric", secretKey |-> SecretKey, fieldEncryption |-> "true"],
    [secretKey |-> SecretKey, autoEncrypt |-> "false", fieldEncryption |-> "true",
     paddingFields |-> MaxPadding] }

\* what res.json and res.secure are called with
Bodies ==
  { Obj(<<Ent("message", Str("Hello, World!"))>>),
    Arr(<<Num("1"), Num("2")>>),
    Str(Repeat("x", OaepLimit + 1)),
    Str("123"),
    Undefined }

\* createSecureMiddleware(opts)
CreateSecureMiddleware ==
  /\ pc = "unbuilt"
  /\ \E opts \in OptionSets :
       /\ options' = opts
       /\ Built(CapsuleConfig(opts), SecureCapsule(CapsuleConfig(opts), env))
  /\ UNCHANGED <<data, wire, output, env, headers, sent, nexts, requests, receiver>>
  /\ UNCHANGED <<envelope, inner, mapping, decoys, draws, touched, cipherCalls, clock,
                 before>>

\* createAsymmetricMiddleware(publicKey, autoEncrypt), "" for no publicKey
CreateAsymmetricMiddleware ==
  /\ pc = "unbuilt"
  /\ \E publicKey \in {"", PublicKey}, autoEncrypt \in {"true", "false"} :
       /\ options' = [mode |-> "asymmetric", publicKey |-> publicKey,
                      autoEncrypt |-> autoEncrypt]
       /\ Built(CapsuleConfig(options'), SecureCapsule(CapsuleConfig(options'), env))
  /\ UNCHANGED <<data, wire, output, env, headers, sent, nexts, requests, receiver>>
  /\ UNCHANGED <<envelope, inner, mapping, decoys, draws, touched, cipherCalls, clock,
                 before>>

Installed == pc \in {"installed", "responded", "secureThrew"}

\* secureMiddleware(req, res, next) for a new request and its response
SecureMiddleware ==
  /\ pc = "ready" \/ Installed
  /\ requests < MaxRequests
  /\ requests' = requests + 1
  /\ headers' = <<>>
  /\ sent' = <<>>
  /\ nexts' = nexts + 1
  /\ pc' = "installed"
  /\ UNCHANGED <<config, data, wire, output, error, env, supplied, options, receiver>>
  /\ UNCHANGED <<envelope, inner, mapping, decoys, draws, touched, cipherCalls, clock,
                 before>>

\* the replaced method has run on obj: r.body went to the original json
\* after the headers r.set, or r.err was thrown
Handed(by, obj, r) ==
  /\ data' = obj
  /\ error' = r.err
  /\ IF r.err = ""
     THEN /\ headers' = headers \o r.set
          /\ sent' = Append(sent, [by |-> by, arg |-> obj, body |-> r.body,
                                   set |-> r.set, headers |-> headers \o r.set])
          /\ pc' = "responded"
     ELSE /\ pc' = "secureThrew"
          /\ UNCHANGED <<headers, sent>>
  /\ UNCHANGED <<config, wire, output, env, supplied, options, nexts, requests,
                 receiver>>
  /\ UNCHANGED <<envelope, inner, mapping, decoys, draws, touched, cipherCalls, clock,
                 before>>

\* the padding fields of a call, where the options ask for them
MiddlewarePads ==
  [1..PaddingFields(options) -> [draw : {<<0, 1, 1, 1, 1, 1, 1>>}, junk : Junk, iv : IVs]]

\* res.json(obj)
ResJson ==
  /\ Installed
  /\ Len(sent) < MaxSends
  /\ \E obj \in Bodies :
       \E rand \in [1..NeedNames(obj) -> CallDraws], ivs \in [1..NeedIvs(obj) -> IVs],
          pads \in MiddlewarePads :
         Handed("json", obj,
                res_json(options, config, obj,
                         [rand |-> rand, ivs |-> ivs, pads |-> pads], clock))

\* res.secure(obj)
ResSecure ==
  /\ Installed
  /\ Len(sent) < MaxSends
  /\ \E obj \in Bodies :
       \E rand \in [1..NeedNames(obj) -> CallDraws], ivs \in [1..NeedIvs(obj) -> IVs],
          pads \in MiddlewarePads :
         Handed("secure", obj,
                res_secure(options, config, obj,
                           [rand |-> rand, ivs |-> ivs, pads |-> pads], clock))

NextMiddleware ==
  \/ CreateSecureMiddleware
  \/ CreateAsymmetricMiddleware
  \/ SecureMiddleware
  \/ ResJson
  \/ ResSecure

SpecMiddleware == InitCapsule /\ [][NextMiddleware]_vars

----------------------------------------------------------------------------
(* generateRandomFieldName on the values of Math.random.  A value of      *)
(* Math.random is r / RandomResolution for an r in 0..RandomResolution-1: *)
(* a value of [0, 1), 1 excluded.                                         *)

RandomResolution == 104

RandomValues == 0..(RandomResolution - 1)

\* Math.floor(Math.random() * n) for the value r / RandomResolution
Math_floor(r, n) == (r * n) \div RandomResolution

\* the draws of one call: its first value gives the length, the others
\* the characters
Floored(rs) ==
  [i \in 1..Len(rs) |-> IF i = 1 THEN Math_floor(rs[i], NameSpread)
                        ELSE Math_floor(rs[i], Len(chars))]

\* the most rounds the loop can take
MaxNameLength == NameBase + NameSpread - 1

\* the least value of Math.random that picks the character c
ValueFor(c) ==
  LET index == (CHOOSE i \in 1..Len(chars) : Ch(chars, i) = c) - 1
  IN (index * RandomResolution + Len(chars) - 1) \div Len(chars)

\* values of Math.random that pick the characters of word, then "a"
Spelling(word) ==
  [i \in 1..MaxNameLength |-> IF i <= Len(word) THEN ValueFor(Ch(word, i)) ELSE 0]

\* the values the rounds of one call draw: one value throughout, values
\* in a row, and those of the two reserved names
CharacterValues ==
  { [i \in 1..MaxNameLength |-> (r + (i - 1) * step) % RandomResolution] :
      r \in RandomValues, step \in {0, 1} }
    \cup {Spelling("encrypted"), Spelling("timestamp")}

RandomSequences == {<<r>> \o cs : r \in RandomValues, cs \in CharacterValues}

InitNames ==
  /\ config = [mode |-> "symmetric", algorithm |-> "AES-256-GCM", secretKey |-> SecretKey]
  /\ data = Undefined
  /\ pc = "idle"
  /\ envelope = Undefined
  /\ inner = Undefined
  /\ mapping = Undefined
  /\ decoys = <<>>
  /\ draws \in {[rand |-> <<rs>>, ivs |-> <<>>, pads |-> <<>>] : rs \in RandomSequences}
  /\ wire = Undefined
  /\ touched = <<>>
  /\ output = Undefined
  /\ error = ""
  /\ cipherCalls = 0
  /\ clock = 0
  /\ before = <<>>
  /\ env = [SECURE_KEY |-> "", PUBLIC_KEY |-> "", PRIVATE_KEY |-> ""]
  /\ supplied = [mode |-> "symmetric", secretKey |-> SecretKey]
  /\ options = [mode |-> "symmetric", secretKey |-> SecretKey]
  /\ headers = <<>>
  /\ sent = <<>>
  /\ nexts = 0
  /\ requests = 0
  /\ listening = FALSE
  /\ marker = <<>>
  /\ reply = <<>>
  /\ passed = 0

\* generateRandomFieldName() on the values drawn
GenerateRandomFieldName ==
  /\ pc = "idle"
  /\ pc' = "named"
  /\ output' = Str(generateRandomFieldName(Floored(draws.rand[1])))
  /\ UNCHANGED <<config, data, envelope, inner, mapping, decoys, draws, wire, touched,
                 error, cipherCalls, clock, beyond>>

NextNames == GenerateRandomFieldName

SpecNames == InitNames /\ [][NextNames]_vars

----------------------------------------------------------------------------
(* The Express middleware of createDecryptMiddleware, on the requests it  *)
(* may be run for.  next is Express's: it returns to the middleware.      *)

\* req.get(name), "" for undefined
req_get(hs, name) ==
  IF \E i \in 1..Len(hs) : hs[i].name = name
  THEN hs[CHOOSE i \in 1..Len(hs) : hs[i].name = name].value
  ELSE ""

\* req.body[k], undefined on a body that is no record
Prop(body, k) == IF body.t = "object" THEN Get(body, k) ELSE Undefined

\* next() with req.body as it is
Forwarded(body) == [body |-> body, reply |-> <<>>, next |-> 1]

\* return res.status(400).json({ error: 'Failed to decrypt request data' })
Rejected(body) ==
  [body |-> body,
   reply |-> [status |-> 400,
              body |-> Obj(<<Ent("error", Str("Failed to decrypt request data"))>>)],
   next |-> 0]

\* the else branch that calls next and falls through to the next() at the
\* end of the middleware
NoEncryptionFound_FallsThrough(body) == [Forwarded(body) EXCEPT !.next = 2]

\* the else branch of the try block: next(); return
NoEncryptionFound(body) == Forwarded(body)

\* the catch block that forwards the request as it is
DecryptedOrRejected_Forwards(body, r) ==
  IF r.ok THEN Forwarded(r.v) ELSE Forwarded(body)

\* req.body = decrypted and next(), or the catch block
DecryptedOrRejected(body, r) ==
  IF r.ok THEN Forwarded(r.v) ELSE Rejected(body)

\* the try block of decryptMiddleware
Decrypted(opts, cfg, body) ==
  IF Prop(body, "encrypted") = True /\ Truthy(Prop(body, "_mapping"))
  THEN DecryptedOrRejected(body, FieldsResult(capsule_decryptFields(cfg, body)))
  ELSE IF Truthy(Prop(body, "encrypted"))
  THEN DecryptedOrRejected(body, capsule_decrypt(cfg, Prop(body, "encrypted")))
  ELSE NoEncryptionFound(body)

\* req.get(options.encryptedHeader || 'X-Encrypted') === 'true'
hasEncryptedHeader(opts, hs) ==
  req_get(hs, IF Field(opts, "encryptedHeader") = "" THEN "X-Encrypted"
              ELSE opts.encryptedHeader) = "true"

\* decryptMiddleware that decodes whatever the headers say
decryptMiddleware_AnyHeader(opts, cfg, hs, body) ==
  IF Truthy(body) THEN Decrypted(opts, cfg, body) ELSE Forwarded(body)

\* decryptMiddleware(req, res, next): req.body after it, the response it
\* gave (<<>> for none) and its calls of next
decryptMiddleware(opts, cfg, hs, body) ==
  IF hasEncryptedHeader(opts, hs) /\ Truthy(body)
  THEN Decrypted(opts, cfg, body)
  ELSE Forwarded(body)

\* the capsule of the clients that send the requests
ClientConfig == [mode |-> "symmetric", algorithm |-> ALGORITHM, secretKey |-> SecretKey]

Message == Obj(<<Ent("message", Str("Hello, World!"))>>)

\* { encrypted: capsule.encrypt(d) }
WholePayload(cfg, d) == Obj(<<Ent("encrypted", capsule_encrypt(cfg, d, "iv0", 0).v)>>)

\* capsule.encryptFieldsWithPadding(Message, n)
FieldPayload(n) ==
  encryptFieldsWithPadding(ClientConfig, Message, n, << <<0, 0, 0, 0, 0, 0, 0>> >>,
    <<"iv0", "iv0">>,
    [i \in 1..n |-> [draw |-> <<0, 1, 1, 1, 1, 1, 1>>, junk |-> "4fzyo8", iv |-> "iv0"]],
    0).v

\* the bodies of the requests
IncomingBodies ==
  { WholePayload(ClientConfig, Message),
    WholePayload([mode |-> "asymmetric", publicKey |-> PublicKey], Message),
    Obj(<<Ent("encrypted", Str("invalid-encrypted-data"))>>),
    Obj(<<Ent("encrypted", True)>>),
    Obj(<<Ent("encrypted", False), Ent("message", Str("Hello, World!"))>>),
    FieldPayload(0),
    FieldPayload(MaxPadding),
    Obj(Put(FieldPayload(0).e, "_mapping", Str("invalid-encrypted-data"))),
    Message,
    Obj(<<>>),
    Str("encrypted"),
    Str(""),
    Null,
    Undefined }

\* the headers of the requests
IncomingHeaders ==
  { <<>>,
    << [name |-> "X-Encrypted", value |-> "true"] >>,
    << [name |-> "X-Encrypted", value |-> "false"] >>,
    << [name |-> "X-Sealed", value |-> "true"] >> }

\* createDecryptMiddleware(opts); beside a secure middleware it is given
\* the options of that one
CreateDecryptMiddleware ==
  /\ pc \in {"unbuilt", "ready"}
  /\ ~listening
  /\ \E opts \in (IF pc = "unbuilt" THEN OptionSets ELSE {options}) :
       /\ options' = opts
       /\ Built(CapsuleConfig(opts), SecureCapsule(CapsuleConfig(opts), env))
  /\ listening' = (pc' = "ready")
  /\ UNCHANGED <<data, wire, output, env, headers, sent, nexts, requests, marker, reply,
                 passed>>
  /\ UNCHANGED <<envelope, inner, mapping, decoys, draws, touched, cipherCalls, clock,
                 before>>

\* decryptMiddleware has run on a request with headers hs and body: r is
\* what it did
Received(hs, body, r) ==
  /\ requests' = requests + 1
  /\ marker' = hs
  /\ wire' = body
  /\ output' = r.body
  /\ reply' = r.reply
  /\ passed' = r.next
  /\ pc' = IF r.reply = <<>> THEN "passedOn" ELSE "refused"
  /\ UNCHANGED <<config, data, error, env, supplied, options, headers, sent, nexts,
                 listening>>
  /\ UNCHANGED <<envelope, inner, mapping, decoys, draws, touched, cipherCalls, clock,
                 before>>

\* decryptMiddleware(req, res, next) for a new request
DecryptMiddleware ==
  /\ listening
  /\ pc \in {"ready", "passedOn", "refused"}
  /\ requests < MaxRequests
  /\ \E hs \in IncomingHeaders, body \in IncomingBodies :
       Received(hs, body, decryptMiddleware(options, config, hs, body))

NextReceive == CreateDecryptMiddleware \/ DecryptMiddleware

SpecReceive == InitCapsule /\ [][NextReceive]_vars

(* Both middlewares on the same options, as in the integration test: what *)
(* res.json handed to the original json comes back as the body of a       *)
(* request under the marker header.                                       *)

\* createDecryptMiddleware(options) beside createSecureMiddleware(options)
CreateDecryptMiddlewareToo == pc = "ready" /\ CreateDecryptMiddleware

\* mockReq.body = the body sent; mockReq.get returns 'true' for the marker
\* header; decryptMiddleware(mockReq, mockRes, mockNext)
Deliver ==
  /\ listening
  /\ pc = "responded"
  /\ sent[Len(sent)].by = "json"
  /\ Received(MarkerHeaders(options), sent[Len(sent)].body,
              decryptMiddleware(options, config, MarkerHeaders(options),
                                sent[Len(sent)].body))

NextRoundTrip ==
  \/ CreateSecureMiddleware
  \/ CreateDecryptMiddlewareToo
  \/ SecureMiddleware
  \/ ResJson
  \/ Deliver

SpecRoundTrip == InitCapsule /\ [][NextRoundTrip]_vars

----------------------------------------------------------------------------
(* The browser client.  WebCrypto's AES-GCM opens what Node's sealed with *)
(* the same key, iv and additional data, the tag following the            *)
(* ciphertext; atob reads what Buffer's toString('base64') wrote.         *)

RECURSIVE response_json(_)
RECURSIVE JsonEntries(_)

\* the properties of a body as JSON carries them
JsonEntries(entries) ==
  IF entries = <<>> THEN <<>>
  ELSE IF Head(entries).v.t = "undefined" THEN JsonEntries(Tail(entries))
  ELSE <<Ent(Head(entries).k, response_json(Head(entries).v))>>
         \o JsonEntries(Tail(entries))

\* await response.json() for the body Express serialised: a token is
\* base64 text, which JSON carries as it is
response_json(body) ==
  IF IsToken(body) THEN body
  ELSE IF body.t = "object" THEN Obj(JsonEntries(body.e))
  ELSE JSON_parse(JSON_stringify(body)).v

\* importAESKey(base64Key): ok is FALSE where importKey rejects the length
importAESKey(base64Key) ==
  [ok |-> Base64Bytes(base64Key) \in {16, 24, 32}, v |-> base64Key]

\* crypto.subtle.decrypt on the parts of the encryption result, then
\* JSON.parse of the plaintext or the plaintext
BrowserOpened(encryptionResult, secretKey) ==
  IF {"iv", "ciphertext", "authTag"} \subseteq DOMAIN encryptionResult
       /\ importAESKey(secretKey).ok
  THEN Opened(Open(secretKey, encryptionResult.iv, AAD, encryptionResult.ciphertext,
                   encryptionResult.authTag))
  ELSE Failed

\* decryptBrowser(encryptedData, secretKey): ok is FALSE where it throws
\* 'Browser decryption failed'
decryptBrowser(encryptedData, secretKey) ==
  IF IsToken(encryptedData) /\ Len(encryptedData.x) = 1
  THEN BrowserOpened(encryptedData.x[1], secretKey)
  ELSE Failed

\* decryptResponse(response, { key })
decryptResponse(response, key) ==
  IF Truthy(response) /\ Truthy(Prop(response, "encrypted"))
  THEN decryptBrowser(Prop(response, "encrypted"), key)
  ELSE Done(response)

\* fetchSecure(url, { decryptKey }) for a response with headers hs and the
\* JSON body responseData: ok is FALSE where it throws 'Secure fetch failed'
fetchSecure(hs, responseData, decryptKey) ==
  IF req_get(hs, "X-Encrypted") = "true"
  THEN IF responseData.t = "null" THEN Failed
       ELSE IF Truthy(Prop(responseData, "encrypted"))
       THEN decryptBrowser(Prop(responseData, "encrypted"), decryptKey)
       ELSE Done(responseData)
  ELSE Done(responseData)

\* the client called by with the key of the server on the last response:
\* r is what the call returned
ClientGot(by, r) ==
  /\ wire' = response_json(sent[Len(sent)].body)
  /\ output' = r.v
  /\ error' = IF r.ok THEN "" ELSE by \o " failed"
  /\ pc' = IF r.ok THEN "clientReturned" ELSE "clientThrew"
  /\ UNCHANGED <<config, data, env, supplied, transport>>
  /\ UNCHANGED <<envelope, inner, mapping, decoys, draws, touched, cipherCalls, clock,
                 before>>

\* res.json sent the last response under the marker header
Transmitted_Encrypted ==
  /\ pc = "responded"
  /\ sent[Len(sent)].by = "json"
  /\ sent[Len(sent)].set # <<>>

\* fetchSecure(url, { decryptKey }) on that response
FetchSecure ==
  /\ Transmitted_Encrypted
  /\ ClientGot("Secure fetch",
               fetchSecure(sent[Len(sent)].headers, response_json(sent[Len(sent)].body),
                           Field(config, "secretKey")))

\* decryptResponse(await response.json(), { key }) on that response
DecryptResponse ==
  /\ Transmitted_Encrypted
  /\ ClientGot("Browser decryption",
               decryptResponse(response_json(sent[Len(sent)].body),
                               Field(config, "secretKey")))

NextClient ==
  \/ CreateSecureMiddleware
  \/ SecureMiddleware
  \/ ResJson
  \/ FetchSecure
  \/ DecryptResponse

SpecClient == InitCapsule /\ [][NextClient]_vars

----------------------------------------------------------------------------
(* Properties: the operators they are stated with *)

RECURSIVE SameValue(_, _)
\* structural equality: the properties of an object in any order
SameValue(a, b) ==
  IF a.t # b.t THEN FALSE
  ELSE IF a.t = "object"
  THEN Keys(a) = Keys(b) /\ \A k \in Keys(a) : SameValue(Get(a, k), Get(b, k))
  ELSE IF a.t = "array"
  THEN Len(a.e) = Len(b.e) /\ \A i \in 1..Len(a.e) : SameValue(a.e[i], b.e[i])
  ELSE a = b

RECURSIVE NoAbsent(_)
\* no field of the record, at any depth, is undefined
NoAbsent(v) ==
  v.t = "object" =>
    \A i \in 1..Len(v.e) : v.e[i].v.t # "undefined" /\ NoAbsent(v.e[i].v)

RECURSIVE StrippedEntries(_)
\* the entries without the undefined fields, at every depth
StrippedEntries(entries) ==
  IF entries = <<>> THEN <<>>
  ELSE IF Head(entries).v.t = "undefined" THEN StrippedEntries(Tail(entries))
  ELSE IF Head(entries).v.t = "object"
  THEN <<Ent(Head(entries).k, Obj(StrippedEntries(Head(entries).v.e)))>>
         \o StrippedEntries(Tail(entries))
  ELSE <<Head(entries)>> \o StrippedEntries(Tail(entries))

Stripped(v) == IF v.t = "object" THEN Obj(StrippedEntries(v.e)) ELSE v

\* the alias a mapping entry names
AliasOf(mappingValue) ==
  IF mappingValue.t = "string" THEN mappingValue.s
  ELSE IF In("_field", mappingValue) THEN Get(mappingValue, "_field").s
  ELSE ""

RECURSIVE KeysWithin(_)
\* the keys of an object and of the objects below it
KeysWithin(o) ==
  IF o.t # "object" THEN {}
  ELSE Keys(o) \cup UNION {KeysWithin(o.e[i].v) : i \in 1..Len(o.e)}

\* the keys of the envelope's body, at every depth
BodyKeys(o) == KeysWithin(DataOnly(o))

\* the names generateRandomFieldName returned to the encode call
Generated == {generateRandomFieldName(draws.rand[i]) : i \in 1..Len(draws.rand)}

\* a string generateRandomFieldName can return
IsAlias(s) ==
  /\ Len(s) \in NameBase..(NameBase + NameSpread - 1)
  /\ \A i \in 1..Len(s) : \E j \in 1..Len(chars) : Ch(s, i) = Ch(chars, j)

\* the call was encryptFields(data), or the same with no padding field
Unpadded == decoys = <<>>

\* the envelope reached decryptFields as it was returned
Intact == touched = <<>>

\* the encode call returned an envelope for a record
Encoded == pc \in {"encrypted", "corrupted", "decrypted", "rejected"} /\ isPlainObject(data)

----------------------------------------------------------------------------
(* C1: round trip.  For every record of nested records and leaves with no  *)
(* absent field, decryptFields(encryptFields(R)) returns a record          *)
(* structurally equal to R.                                                *)
C1_RoundTrip ==
  (pc \in {"decrypted", "rejected"} /\ Unpadded /\ Intact
     /\ isPlainObject(data) /\ NoAbsent(data))
    => (pc = "decrypted" /\ SameValue(output, data))

(* C2: decoy inertness.  Whatever names the padding fields get, decoding   *)
(* the padded envelope gives what decoding the envelope before padding     *)
(* gives; the padding fields are top-level properties of the envelope and  *)
(* the mapping token is the one encryptFields made.                        *)
C2_DecoysInert ==
  pc = "encrypted" =>
    /\ decryptFields(config, envelope).err = decryptFields(config, inner).err
    /\ decryptFields(config, envelope).v = decryptFields(config, inner).v
    /\ Get(envelope, "_mapping") = Get(inner, "_mapping")
    /\ Keys(envelope) = Keys(inner) \cup {decoys[i] : i \in 1..Len(decoys)}

RECURSIVE AbsentUnmapped(_, _)
\* the mapping m of record d has no entry for an undefined field of d
AbsentUnmapped(d, m) ==
  \A i \in 1..Len(d.e) :
    IF d.e[i].v.t = "undefined" THEN ~In(d.e[i].k, m)
    ELSE isPlainObject(d.e[i].v) =>
           AbsentUnmapped(d.e[i].v, Get(Get(m, d.e[i].k), "_nested"))

RECURSIVE AbsentDropped(_, _)
\* the decoded record out has no key for an undefined field of d
AbsentDropped(d, out) ==
  \A i \in 1..Len(d.e) :
    IF d.e[i].v.t = "undefined" THEN ~In(d.e[i].k, out)
    ELSE (isPlainObject(d.e[i].v) /\ In(d.e[i].k, out)) =>
           AbsentDropped(d.e[i].v, Get(out, d.e[i].k))

(* C3: absent fields.  A record with undefined fields is encoded without   *)
(* error; the envelope and the mapping are those of the record without     *)
(* these fields, made from the same draws, so an undefined field gets no   *)
(* alias, no envelope entry and no mapping entry; the decoded record has   *)
(* no key for it.                                                          *)
C3_AbsentSkipped ==
  /\ pc = "threw" => ~isPlainObject(data)
  /\ Encoded =>
       /\ encryptFields(config, Stripped(data), draws.rand, draws.ivs, clock).inner = inner
       /\ encryptFields(config, Stripped(data), draws.rand, draws.ivs, clock).mapping
            = mapping
       /\ AbsentUnmapped(data, mapping)
  /\ (pc = "decrypted" /\ isPlainObject(data)) => AbsentDropped(data, output)

\* a record with an undefined field was encoded and decoded
C3_Witness ==
  /\ pc = "decrypted"
  /\ isPlainObject(data)
  /\ ~NoAbsent(data)
  /\ SameValue(output, Stripped(data))

(* C4 as stated: no key of the body of the envelope encryptFields returns, *)
(* at any depth, equals a field name of the record or of its nested        *)
(* records.                                                                *)
C4_NoOriginalName ==
  (pc = "encrypted" /\ isPlainObject(data))
    => BodyKeys(inner) \cap KeysWithin(data) = {}

(* C4 as amended: every key of the body is a name the generator returned   *)
(* to the call, so a body key equals an original field name only where the *)
(* generator returned that name; a field name that is not a string of 6 to *)
(* 13 letters is never a body key.                                         *)
C4_OnlyGeneratedNames ==
  (pc = "encrypted" /\ isPlainObject(data)) =>
    /\ BodyKeys(inner) \subseteq Generated
    /\ \A k \in BodyKeys(inner) : IsAlias(k)
    /\ \A k \in KeysWithin(data) : ~IsAlias(k) => k \notin BodyKeys(inner)

\* the generator returned the name of a field of the record
C4_Witness ==
  /\ pc = "encrypted"
  /\ isPlainObject(data)
  /\ BodyKeys(inner) \cap KeysWithin(data) # {}
  /\ \E k \in KeysWithin(data) : ~IsAlias(k)

(* C5: encryptFields throws, and returns no envelope, for every argument   *)
(* that isPlainObject does not classify as a nested record.                *)
C5_NonRecordRejected ==
  (pc \in {"encrypted", "threw"} /\ ~isPlainObject(data))
    => (pc = "threw" /\ error = "Field encryption requires a plain object"
        /\ envelope = Undefined)

(* C6: decryptFields throws the malformed-envelope error, before any call  *)
(* of the cipher, for every envelope whose encrypted property is not the   *)
(* boolean true or that has no _mapping property.                          *)
C6_MalformedRejected ==
  (pc \in {"decrypted", "rejected"}
     /\ (Get(wire, "encrypted") # True \/ ~HasKey(wire, "_mapping")))
    => /\ pc = "rejected"
       /\ error = "Invalid field-encrypted data structure"
       /\ cipherCalls = 0

RECURSIVE OmittedEntries(_, _, _)
\* the entries of a record without the field whose alias lies at path
OmittedEntries(entries, m, path) ==
  IF entries = <<>> THEN <<>>
  ELSE IF Head(entries).v.t = "undefined" THEN OmittedEntries(Tail(entries), m, path)
  ELSE IF AliasOf(Get(m, Head(entries).k)) # Head(path)
  THEN <<Head(entries)>> \o OmittedEntries(Tail(entries), m, path)
  ELSE IF Len(path) = 1 THEN OmittedEntries(Tail(entries), m, path)
  ELSE <<Ent(Head(entries).k,
             Obj(OmittedEntries(Head(entries).v.e,
                                Get(Get(m, Head(entries).k), "_nested"), Tail(path))))>>
         \o OmittedEntries(Tail(entries), m, path)

\* the property changed on the way is an alias, and it is now missing or of
\* the wrong shape
MisShaped ==
  /\ touched # <<>>
  /\ Head(touched) \notin {"encrypted", "timestamp", "_mapping"}
  /\ \/ AtPath(wire, touched).t = "undefined"
     \/ AtPath(envelope, touched).t = "object" /\ AtPath(wire, touched).t # "object"
     \/ AtPath(envelope, touched).t = "string" /\ AtPath(wire, touched).t # "string"

(* C7: partial-field tolerance.  When an alias the mapping names is        *)
(* missing from the envelope or holds a value of the wrong shape, decode   *)
(* does not throw and returns the record without exactly that field.       *)
C7_PartialTolerance ==
  (pc \in {"decrypted", "rejected"} /\ MisShaped)
    => /\ pc = "decrypted"
       /\ SameValue(output, Obj(OmittedEntries(data.e, mapping, touched)))

RECURSIVE Mirrors(_, _)
\* the mapping m has one entry per field of d that is not undefined: an
\* alias for a leaf, { _field, _nested } for a nested record
Mirrors(d, m) ==
  /\ m.t = "object"
  /\ Len(m.e) = Cardinality(Keys(m))
  /\ Keys(m) = {d.e[i].k : i \in {j \in 1..Len(d.e) : d.e[j].v.t # "undefined"}}
  /\ \A i \in 1..Len(d.e) :
       d.e[i].v.t # "undefined" =>
         IF isPlainObject(d.e[i].v)
         THEN /\ Get(m, d.e[i].k).t = "object"
              /\ Keys(Get(m, d.e[i].k)) = {"_field", "_nested"}
              /\ Get(Get(m, d.e[i].k), "_field").t = "string"
              /\ Get(Get(m, d.e[i].k), "_field").x = <<>>
              /\ Get(Get(m, d.e[i].k), "_field").s \in Generated
              /\ Mirrors(d.e[i].v, Get(Get(m, d.e[i].k), "_nested"))
         ELSE /\ Get(m, d.e[i].k).t = "string"
              /\ Get(m, d.e[i].k).x = <<>>
              /\ Get(m, d.e[i].k).s \in Generated

RECURSIVE AliasesIn(_)
\* the aliases of a mapping, in the order of its entries, a nested record's
\* alias before those of its fields
AliasesIn(entries) ==
  IF entries = <<>> THEN <<>>
  ELSE IF Head(entries).v.t = "object"
  THEN <<AliasOf(Head(entries).v)>> \o AliasesIn(Get(Head(entries).v, "_nested").e)
         \o AliasesIn(Tail(entries))
  ELSE <<AliasOf(Head(entries).v)>> \o AliasesIn(Tail(entries))

(* C8: mapping mirror.  The mapping of one encode call has exactly one     *)
(* entry per field that is not undefined, keyed by the original name: the  *)
(* alias for a leaf, the pair of alias and sub-mapping for a nested        *)
(* record; its strings are the names the generator returned to the call,   *)
(* one per field in the order of the fields.                               *)
C8_MappingMirror ==
  Encoded =>
    /\ Mirrors(data, mapping)
    /\ AliasesIn(mapping.e)
         = [i \in 1..Len(draws.rand) |-> generateRandomFieldName(draws.rand[i])]

\* a record with a leaf and a nested record was encoded
C8_Witness ==
  /\ pc = "encrypted"
  /\ isPlainObject(data)
  /\ \E k \in Keys(mapping) : Get(mapping, k).t = "string"
  /\ \E k \in Keys(mapping) : Get(mapping, k).t = "object"

RECURSIVE Corresponds(_, _, _)
\* each key of the fragment outside skip is the alias of exactly one entry
\* of the mapping m, and each entry's alias holds a token or a fragment
Corresponds(fragment, m, skip) ==
  /\ \A key \in Keys(fragment) \ skip :
       Cardinality({k \in Keys(m) : AliasOf(Get(m, k)) = key}) = 1
  /\ \A k \in Keys(m) :
       /\ HasKey(fragment, AliasOf(Get(m, k)))
       /\ IF Get(m, k).t = "string"
          THEN IsToken(Get(fragment, AliasOf(Get(m, k))))
          ELSE /\ Get(fragment, AliasOf(Get(m, k))).t = "object"
               /\ Corresponds(Get(fragment, AliasOf(Get(m, k))),
                              Get(Get(m, k), "_nested"), {})

(* C9: envelope and mapping.  In the envelope an encode call returns, each *)
(* key other than encrypted, timestamp, _mapping and the padding fields is *)
(* the alias of exactly one mapping entry, and each mapping entry's alias  *)
(* is a key at the matching level, holding a token for a leaf and a        *)
(* fragment for a nested record.                                           *)
C9_Correspondence ==
  (pc = "encrypted" /\ isPlainObject(data)) =>
    Corresponds(envelope, mapping,
                {"encrypted", "timestamp", "_mapping"}
                  \cup {decoys[i] : i \in 1..Len(decoys)})

(* C10: envelope metadata.  Whatever names the fields get, the envelope    *)
(* encryptFields returns has encrypted = true, timestamp = the ISO-8601    *)
(* time of the call and _mapping = the token of the encrypted mapping.     *)
C10_Metadata ==
  pc = "encrypted" =>
    /\ Get(inner, "encrypted") = True
    /\ Get(inner, "timestamp") = Str(toISOString(clock))
    /\ capsule_decrypt(config, Get(inner, "_mapping")) = Done(mapping)

RECURSIVE TokensWithin(_)
\* the tokens an envelope fragment holds, at every depth
TokensWithin(o) ==
  IF o.t # "object" THEN {}
  ELSE {o.e[i].v : i \in {j \in 1..Len(o.e) : IsToken(o.e[j].v)}}
         \cup UNION {TokensWithin(o.e[i].v) : i \in 1..Len(o.e)}

(* C11: independence.  Two encode calls with the same record return        *)
(* envelopes with different alias sets and different leaf tokens, and both *)
(* envelopes decode to the record.                                         *)
C11_Independence ==
  \A i \in 1..Len(before) :
    (pc \in {"decrypted", "rejected"} /\ before[i].data = data) =>
      /\ BodyKeys(before[i].envelope) # BodyKeys(envelope)
      /\ TokensWithin(DataOnly(before[i].envelope)) # TokensWithin(DataOnly(envelope))
      /\ pc = "decrypted"
      /\ before[i].error = ""
      /\ SameValue(output, Stripped(data))
      /\ SameValue(before[i].output, Stripped(data))

\* the envelope reached decryptFields with its _mapping token one character
\* short
MappingCut ==
  /\ touched = <<"_mapping">>
  /\ IsToken(Get(envelope, "_mapping"))
  /\ Get(wire, "_mapping") = Shortened(Get(envelope, "_mapping"))

\* the '=' characters that end the _mapping token of the envelope
MappingPadding == Base64Padding(TransmissionLength(Get(envelope, "_mapping").x[1]))

(* C12 as stated: decoding an envelope whose _mapping token lost its last  *)
(* character always throws the decryption failure.                         *)
C12_TruncatedRejected ==
  (pc \in {"decrypted", "rejected"} /\ MappingCut)
    => (pc = "rejected" /\ error = "Failed to decrypt transmission data")

(* C12 as amended: decoding such an envelope throws the decryption failure *)
(* when the lost character is a character of the base64 data, and returns  *)
(* what decoding the whole envelope returns when it is the '=' padding; it *)
(* never returns a record built from a partial mapping.                    *)
C12_TruncatedNeverPartial ==
  (pc \in {"decrypted", "rejected"} /\ MappingCut) =>
    IF MappingPadding = 0
    THEN pc = "rejected" /\ error = "Failed to decrypt transmission data"
    ELSE /\ error = decryptFields(config, envelope).err
         /\ output = decryptFields(config, envelope).v

\* a token that ends with padding was cut and the envelope decoded
C12_Witness ==
  /\ MappingCut
  /\ pc = "decrypted"
  /\ MappingPadding > 0
  /\ output = decryptFields(config, envelope).v

\* C13: encryptFields, encryptFieldsWithPadding and decryptFields leave the
\* capsule's config, the input record and the input envelope as they were,
\* and what a call returns or throws is determined by its argument, the
\* key and the randomness it drew, whatever calls the engine served before.
C13_Stateless ==
  [][ /\ config' = config
      /\ (pc = "idle" /\ pc' # "idle") =>
           /\ before' = before
           /\ error' = encryptFieldsWithPadding(config, data', Len(draws'.pads), draws'.rand,
                                                draws'.ivs, draws'.pads, clock).err
           /\ (error' = "") =>
                envelope' = encryptFieldsWithPadding(config, data', Len(draws'.pads),
                                                     draws'.rand, draws'.ivs, draws'.pads,
                                                     clock).v
      /\ (pc = "encrypted") =>
           /\ before' = before
           /\ wire' = wire
           /\ data' = data
           /\ envelope' = envelope
           /\ output' = decryptFields(config, wire).v
           /\ error' = decryptFields(config, wire).err
    ]_vars

\* the engine has served a whole encode/decode pair and then a second one,
\* and the second envelope is still what the encode call returned
C13_Witness ==
  /\ before # <<>>
  /\ pc = "decrypted"
  /\ wire = envelope
  /\ In("_mapping", wire)
  /\ data \in CallInputs

\* the capsule holds the keys its mode works with
UsableKeys(cfg) ==
  IF cfg.mode = "symmetric" THEN keyToBuffer(Field(cfg, "secretKey")).ok
  ELSE [publicKey |-> Field(cfg, "publicKey"), privateKey |-> Field(cfg, "privateKey")]
         \in KeyPairs

\* C14: in symmetric and in asymmetric mode, for every string (the empty
\* one and long ones included) and every JSON-serialisable value x,
\* capsule.decrypt(capsule.encrypt(x)) returns x, of the same type.
C14_ValueRoundTrip ==
  (pc \in {"sealed", "sealFailed", "opened", "openFailed"} /\ UsableKeys(config)) =>
    /\ pc \in {"sealed", "opened"}
    /\ (pc = "opened") => SameValue(output, data)

\* what decrypting the chunks of a token in order and concatenating gives
Recovered(token, privateKey) ==
  Concatenated([i \in 1..Len(token.x[1].ciphertext) |->
                  privateDecrypt(privateKey, token.x[1].ciphertext[i])], 1, "")

\* C15: in asymmetric mode every chunk handed to RSA-OAEP (2048-bit key,
\* SHA-256) is within the size the primitive accepts, encryption succeeds
\* for every plaintext length, and the chunks decrypted in order and
\* concatenated are the original plaintext.
C15_Chunking ==
  (pc \in {"sealed", "sealFailed", "opened", "openFailed"}
     /\ config.mode = "asymmetric" /\ UsableKeys(config)) =>
    /\ \A i \in 1..Len(AsymmetricChunks(Plaintext(data))) :
         Len(AsymmetricChunks(Plaintext(data))[i]) <= OaepLimit
    /\ pc # "sealFailed"
    /\ (pc = "sealed") => Recovered(wire, config.privateKey) = Plaintext(data)

\* C16: constructing a capsule in symmetric mode with a secretKey that
\* does not decode from base64 to exactly 32 bytes throws, so that no
\* capsule holding an unusable key exists after construction.
C16_InvalidKeyRejected ==
  /\ (pc \in {"ready", "threw"}
       /\ SpreadConfig([mode |-> "symmetric"], supplied).mode = "symmetric"
       /\ Field(supplied, "secretKey") # ""
       /\ ~keyToBuffer(supplied.secretKey).ok)
       => pc = "threw"
  /\ (pc = "ready" /\ config.mode = "symmetric") => keyToBuffer(config.secretKey).ok

\* the keys of the mode are not all there
Missing(mode, secretKey, publicKey, privateKey) ==
  IF mode = "symmetric" THEN secretKey = "" ELSE publicKey = "" \/ privateKey = ""

\* the keys the capsule is left with once the environment has been asked
MissingAfterFallback(partial, envConfig) ==
  IF NoKeys(partial)
  THEN Missing(SpreadConfig([mode |-> "symmetric"], partial).mode,
               envConfig.SECURE_KEY, envConfig.PUBLIC_KEY, envConfig.PRIVATE_KEY)
  ELSE Missing(SpreadConfig([mode |-> "symmetric"], partial).mode,
               Field(partial, "secretKey"), Field(partial, "publicKey"),
               Field(partial, "privateKey"))

\* C17: the constructor throws whenever the keys of the mode are missing
\* after the environment fallback (symmetric without secretKey, asymmetric
\* without both publicKey and privateKey), and succeeds otherwise; where
\* the caller supplied any of the three keys the capsule holds the
\* caller's keys and none of the environment's.
C17_MissingKeysRejected ==
  (pc \in {"ready", "threw"}) =>
    /\ (pc = "threw") <=> MissingAfterFallback(supplied, env)
    /\ (pc = "ready" /\ ~NoKeys(supplied)) =>
         \A k \in {"secretKey", "publicKey", "privateKey"} :
           Field(config, k) = Field(supplied, k)

\* the caller gave the public key only and the environment holds a
\* private key: the constructor threw
C17_Witness ==
  /\ pc = "threw"
  /\ supplied = [mode |-> "asymmetric", publicKey |-> PublicKey]
  /\ env.PRIVATE_KEY # ""
  /\ error = "Public and private keys are required for asymmetric mode"

\* the algorithm a report names is the one of the mode it names
Agree(report) ==
  Get(report, "algorithm")
    = Str(IF Get(report, "mode") = Str("symmetric") THEN "AES-256-GCM" ELSE "RSA-OAEP")

\* C18: after construction and after every successful updateConfig,
\* getConfig() reports a mode and an algorithm that agree (AES-256-GCM for
\* symmetric, RSA-OAEP for asymmetric), and what getConfig() returns never
\* has a secretKey, a publicKey or a privateKey.
C18_AlgorithmFromMode ==
  /\ (pc \in {"ready", "updated"}) => Agree(getConfig(config))
  /\ (pc = "reported") =>
       Keys(output) \cap {"secretKey", "publicKey", "privateKey"} = {}

\* the body is the encrypted form of the argument: { encrypted: token },
\* the token one that the capsule's key holder reads back
WholeForm(body) ==
  /\ body.t = "object"
  /\ Keys(body) = {"encrypted"}
  /\ IsToken(Get(body, "encrypted"))

RECURSIVE OnlyTokens(_)
\* a record with tokens or such records under every name
OnlyTokens(o) ==
  \A i \in 1..Len(o.e) :
    IsToken(o.e[i].v) \/ (o.e[i].v.t = "object" /\ OnlyTokens(o.e[i].v))

\* the envelope of field mode: the flag, the timestamp, the encrypted
\* mapping, and tokens or records of tokens under every other name
FieldForm(body) ==
  /\ body.t = "object"
  /\ Get(body, "encrypted") = True
  /\ IsToken(Get(body, "_mapping"))
  /\ OnlyTokens(Obj(Without(Without(body.e, "encrypted"), "timestamp")))

EncryptedForm(body) == WholeForm(body) \/ FieldForm(body)

\* the marker header is among the headers
Marked(hs) ==
  \E i \in 1..Len(hs) :
    /\ hs[i].name = (IF Field(options, "encryptedHeader") = "" THEN "X-Encrypted"
                     ELSE options.encryptedHeader)
    /\ hs[i].value = "true"

\* C19: when autoEncrypt is not false, every res.json(body) sets the
\* marker header before the underlying send and hands the original json
\* the encrypted form of the body, never the plaintext body.
C19_SendSide ==
  (Field(options, "autoEncrypt") # "false") =>
    \A i \in 1..Len(sent) :
      (sent[i].by = "json") =>
        /\ EncryptedForm(sent[i].body)
        /\ sent[i].body # sent[i].arg
        /\ Marked(sent[i].headers)

\* C20: when autoEncrypt is false, res.json(body) hands the body to the
\* original json unchanged and sets no header; the middleware has called
\* next once for every request it was run for, whatever autoEncrypt is.
C20_AutoEncryptOff ==
  /\ nexts = requests
  /\ (Field(options, "autoEncrypt") = "false") =>
       \A i \in 1..Len(sent) :
         (sent[i].by = "json") =>
           /\ sent[i].body = sent[i].arg
           /\ sent[i].set = <<>>

\* with autoEncrypt false a record went through res.json as it was, no
\* header on the response, and next was called for the request
C20_Witness ==
  /\ Field(options, "autoEncrypt") = "false"
  /\ requests = 1
  /\ nexts = 1
  /\ Len(sent) = 1
  /\ sent[1].by = "json"
  /\ sent[1].body = Obj(<<Ent("message", Str("Hello, World!"))>>)
  /\ headers = <<>>

\* C21: res.secure(body) sets the marker header and hands the original
\* json the encrypted form of the body only, whatever autoEncrypt is; when
\* the encryption throws, the error goes to the caller and nothing is
\* handed to the original json nor is a header set.
C21_SecureAlways ==
  [][ /\ (pc' = "secureThrew") =>
           (error' # "" /\ sent' = sent /\ headers' = headers)
      /\ \A i \in 1..Len(sent') :
           (sent'[i].by = "secure") =>
             /\ EncryptedForm(sent'[i].body)
             /\ sent'[i].body # sent'[i].arg
             /\ Marked(sent'[i].headers) ]_vars

\* with autoEncrypt false, res.secure sent a record as a field-mode
\* envelope under the marker header, and a second res.secure threw with
\* nothing more sent
C21_Witness ==
  /\ pc = "secureThrew"
  /\ Field(options, "autoEncrypt") = "false"
  /\ error # ""
  /\ Len(sent) = 1
  /\ sent[1].by = "secure"
  /\ FieldForm(sent[1].body)
  /\ Marked(sent[1].headers)

\* the decrypt middleware has run on a request
Handled == listening /\ pc \in {"passedOn", "refused"}

\* what decoding the body of the request gives: the field-mode decoder on
\* an envelope with the flag and a mapping, the whole-payload one otherwise
Decoding(cfg, body) ==
  IF Prop(body, "encrypted") = True /\ Truthy(Prop(body, "_mapping"))
  THEN FieldsResult(decryptFields(cfg, body))
  ELSE capsule_decrypt(cfg, Prop(body, "encrypted"))

\* the request asks for decoding: the marker header is 'true' and the
\* body has a truthy encrypted
Encrypted(opts, hs, body) ==
  hasEncryptedHeader(opts, hs) /\ Truthy(body) /\ Truthy(Prop(body, "encrypted"))

FailureReply ==
  [status |-> 400, body |-> Obj(<<Ent("error", Str("Failed to decrypt request data"))>>)]

\* C22: when the marker header is present and decoding the body throws,
\* in whole-payload or in field mode, the decrypt middleware responds with
\* status 400 and { error: 'Failed to decrypt request data' }, does not
\* call next, and leaves req.body as received.
C22_ReceiveFailure ==
  (Handled /\ Encrypted(options, marker, wire) /\ ~Decoding(config, wire).ok) =>
    /\ reply = FailureReply
    /\ passed = 0
    /\ output = wire

\* a field-mode envelope whose mapping does not decode was refused
C22_Witness ==
  /\ Handled
  /\ Encrypted(options, marker, wire)
  /\ Prop(wire, "encrypted") = True
  /\ Get(wire, "_mapping") = Str("invalid-encrypted-data")
  /\ reply = FailureReply
  /\ passed = 0

\* C23: when the marker header is absent or not 'true', or the body is
\* empty, or the body has no truthy encrypted, the decrypt middleware
\* leaves req.body unchanged, sends no response and calls next once.
C23_PassThrough ==
  (Handled /\ ~Encrypted(options, marker, wire)) =>
    /\ output = wire
    /\ reply = <<>>
    /\ passed = 1

\* a well-formed encrypted body under a marker header that is not 'true'
\* went on as it was
C23_Witness ==
  /\ Handled
  /\ req_get(marker, "X-Encrypted") = "false"
  /\ Field(options, "encryptedHeader") = ""
  /\ wire = WholePayload(ClientConfig, Message)
  /\ Decoding(config, wire).ok
  /\ output = wire
  /\ passed = 1

\* C27: for every request the decrypt middleware runs on, in every
\* branch, either next is called exactly once and no response is sent, or
\* the 400 response is sent and next is not called; next is never called
\* twice; req.body is replaced only by what a successful decode returned.
C27_OneOutcome ==
  [][ (requests' = requests + 1) =>
        /\ \/ passed' = 1 /\ reply' = <<>>
           \/ passed' = 0 /\ reply' = FailureReply
        /\ (output' # wire') =>
             /\ passed' = 1
             /\ Encrypted(options, marker', wire')
             /\ Decoding(config, wire').ok
             /\ output' = Decoding(config, wire').v ]_vars

\* under the marker header a body whose encrypted is false took the
\* branch that calls next and returns: next was called once, and the body
\* is the received one
C27_Witness ==
  /\ Handled
  /\ hasEncryptedHeader(options, marker)
  /\ Truthy(wire)
  /\ Prop(wire, "encrypted") = False
  /\ passed = 1
  /\ reply = <<>>
  /\ output = wire

\* C24: every body sent with res.json, in whole-payload mode, in field
\* mode and in field mode with padding, and given under the marker header
\* to a decrypt middleware built with the same key and options, leaves a
\* req.body equal to the original body, with next called once.
C24_MiddlewareRoundTrip ==
  (Handled /\ sent # <<>>) =>
    /\ SameValue(output, data)
    /\ passed = 1

Letters ==
  { "a", "b", "c", "d", "e", "f", "g", "h", "i", "j", "k", "l", "m",
    "n", "o", "p", "q", "r", "s", "t", "u", "v", "w", "x", "y", "z",
    "A", "B", "C", "D", "E", "F", "G", "H", "I", "J", "K", "L", "M",
    "N", "O", "P", "Q", "R", "S", "T", "U", "V", "W", "X", "Y", "Z" }

\* C25: for every value of Math.random in [0, 1), generateRandomFieldName
\* returns a name of 6 to 13 characters, each one of the 52 letters; an
\* alias is therefore never "_mapping" (it can be "encrypted" or
\* "timestamp": the witness).
C25_AliasShape ==
  (pc = "named") =>
    /\ Len(output.s) >= 6
    /\ Len(output.s) <= 13
    /\ \A i \in 1..Len(output.s) : Ch(output.s, i) \in Letters
    /\ output.s # "_mapping"

\* the name generated is "encrypted"
C25_Witness == pc = "named" /\ output = Str("encrypted")

\* the aliases of one level of the mapping m, with the padding names
LevelAliases(m, padding) ==
  {AliasOf(m.e[i].v) : i \in 1..Len(m.e)} \cup {padding[i] : i \in 1..Len(padding)}

RECURSIVE AliasesApart(_, _)
\* the aliases of the fields of every level of the mapping m, and the
\* padding names beside those of the top level, differ from each other
\* and from the names encrypted and timestamp
AliasesApart(m, padding) ==
  /\ Cardinality(LevelAliases(m, padding)) = Len(m.e) + Len(padding)
  /\ LevelAliases(m, padding) \cap {"encrypted", "timestamp"} = {}
  /\ \A i \in 1..Len(m.e) :
       (m.e[i].v.t = "object") => AliasesApart(Get(m.e[i].v, "_nested"), <<>>)

RECURSIVE PlainElement(_, _)
\* null, a boolean, a number whose text is not among excluded, or an
\* array of such
PlainElement(v, excluded) ==
  \/ v.t \in {"null", "boolean"}
  \/ v.t = "number" /\ v.s \notin excluded
  \/ v.t = "array" /\ \A i \in 1..Len(v.e) : PlainElement(v.e[i], excluded)

\* such a value, or a string that is no JSON text
PlainLeaf(v, excluded) ==
  \/ PlainElement(v, excluded)
  \/ v.t = "string" /\ v.x = <<>> /\ ~JSON_parse(v.s).ok

RECURSIVE PlainRecord(_, _)
\* a record of such leaves and records
PlainRecord(d, excluded) ==
  \A i \in 1..Len(d.e) :
    IF d.e[i].v.t = "object" THEN PlainRecord(d.e[i].v, excluded)
    ELSE PlainLeaf(d.e[i].v, excluded)

\* the numbers JSON has no text for
NonFinite == {"NaN", "Infinity", "-Infinity"}

\* the envelope of a record went through decryptFields, the aliases of
\* the encode call being apart
DecodedApart ==
  /\ pc \in {"decrypted", "rejected"}
  /\ Intact
  /\ isPlainObject(data)
  /\ AliasesApart(mapping, decoys)

\* C26 as stated: if the aliases of one encode call (those of the fields
\* at each level and those of the decoys) differ among siblings and from
\* encrypted and timestamp, and every leaf is null, a boolean, a number,
\* an array of such, or a string that is no JSON text, then
\* decryptFields(encryptFieldsWithPadding(R, n)) is structurally equal to
\* R, for every n >= 0 and every depth, empty nested records included.
C26_ConditionalRoundTrip ==
  (DecodedApart /\ PlainRecord(data, {})) =>
    (pc = "decrypted" /\ SameValue(output, data))

\* C26 amended: the same, the numbers being finite.
C26_FiniteRoundTrip ==
  (DecodedApart /\ PlainRecord(data, NonFinite)) =>
    (pc = "decrypted" /\ SameValue(output, data))

\* a record with an empty nested record and an array came back from a
\* padded envelope
C26_Witness ==
  /\ DecodedApart
  /\ PlainRecord(data, NonFinite)
  /\ decoys # <<>>
  /\ In("e", data)
  /\ Get(data, "e") = Obj(<<>>)
  /\ pc = "decrypted"
  /\ SameValue(output, data)

\* the keys the mode of cfg requires are in cfg
HoldsKeys(cfg) ==
  IF cfg.mode = "symmetric" THEN Field(cfg, "secretKey") # ""
  ELSE Field(cfg, "publicKey") # "" /\ Field(cfg, "privateKey") # ""

\* C28: after any sequence of updateConfig calls, throwing ones included,
\* the stored configuration holds the keys its mode requires; an
\* updateConfig that throws leaves the configuration as it was.
C28_ConfigValid ==
  [][ /\ Alive' => HoldsKeys(config')
      /\ (pc' = "updateThrew") => (config' = config) ]_vars

\* C29: createSecureMiddleware, createDecryptMiddleware and
\* createAsymmetricMiddleware, given mode 'asymmetric' and the key their
\* options take (a publicKey), return a middleware without throwing, and
\* the capsule of the middleware can encrypt a response body.
C29_AsymmetricFactories ==
  (pc # "unbuilt" /\ Field(options, "mode") = "asymmetric"
     /\ Field(options, "publicKey") # "") =>
    /\ pc # "threw"
    /\ capsule_encrypt(config, Obj(<<Ent("message", Str("Hello, World!"))>>), "iv0",
                       0).ok

\* C30: every response body the secure middleware transmits under the
\* marker header (whole-payload { encrypted: token }, field-mode envelope,
\* with or without padding) is decoded by the browser client's
\* fetchSecure and decryptResponse, given the same key, to the body that
\* was passed to res.json; the client never returns a body that is still
\* encrypted and never fails on a well-formed envelope.
C30_ClientDecodes ==
  (pc \in {"clientReturned", "clientThrew"}) =>
    /\ pc = "clientReturned"
    /\ SameValue(output, data)

====
